---- MODULE Spec2Model ----
(***************************************************************************)
(* A model of the RSS/Atom aggregation worker: the scheduler/emitter       *)
(* (FeedEmitter), the per-feed pipeline (FeedManager, Feed), the           *)
(* orchestrator (Aggregator), the service/model layer over the MySQL       *)
(* store (FeedService, ItemService, models/feed.js, models/item.js,        *)
(* models/error.js) and the URL canonicalizer (normalizeUrl).              *)
(*                                                                         *)
(* Every await on I/O (HTTP fetch, a store statement) is a point where a   *)
(* task is suspended; the completion of that I/O is one action, which      *)
(* runs the synchronous code and the promise continuations that follow it  *)
(* up to the next I/O of every task it wakes or starts.                    *)
(***************************************************************************)
EXTENDS Integers, Sequences, FiniteSets, TLC

(***************************************************************************)
(* Bounds of the model.                                                    *)
(***************************************************************************)
MaxInFlight == 3      \* tasks suspended on I/O at the same time
MaxTicks    == 2      \* timer elapses (Spec)
MaxCmds     == 1      \* control messages received (Spec)
MaxClock    == 2      \* seconds the wall clock advances

(***************************************************************************)
(* Program constants.                                                      *)
(***************************************************************************)
MAX_CONSECUTIVE_FAILURES == 5
MAX_INTERVAL_MS == 86400000
DefaultRefresh == 3600000
OneDaySec == 86400

Workers == {1, 2}
NoId == 0             \* undefined / null id
NullUrl == ""         \* null / missing url (falsy, as the empty string is)
NaN == -1             \* an invalid Date

Min(a, b) == IF a <= b THEN a ELSE b

RECURSIVE Pow2(_)
Pow2(n) == IF n <= 0 THEN 1 ELSE 2 * Pow2(n - 1)

Put(f, k, v) == [x \in (DOMAIN f) \cup {k} |-> IF x = k THEN v ELSE f[x]]
Del(f, k) == [x \in (DOMAIN f) \ {k} |-> f[x]]
Empty == [x \in {} |-> 0]

RECURSIVE MinOf(_)
MinOf(S) == LET x == CHOOSE y \in S : TRUE
            IN IF S = {x} THEN x ELSE Min(x, MinOf(S \ {x}))

FreshIn(used) == MinOf((1 .. (Cardinality(used) + 1)) \ used)

RECURSIVE SelectSeqBy(_, _)
SelectSeqBy(s, S) ==
  IF s = << >> THEN << >>
  ELSE IF Head(s) \in S THEN << Head(s) >> \o SelectSeqBy(Tail(s), S)
       ELSE SelectSeqBy(Tail(s), S)

(***************************************************************************)
(* Strings.  A string is handled character by character through SubSeq.    *)
(***************************************************************************)
Ch(s, i) == SubSeq(s, i, i)
From(s, i) == SubSeq(s, i, Len(s))

UpperChars == "ABCDEFGHIJKLMNOPQRSTUVWXYZ"
LowerChars == "abcdefghijklmnopqrstuvwxyz"
DigitChars == "0123456789"
\* The order of the root collation used by String.prototype.localeCompare on
\* the characters of the model's alphabet: punctuation, digits, letters.
CollationChars == " _-:?./&#%+=0123456789abcdefghijklmnopqrstuvwxyz"

RECURSIVE IndexIn(_, _, _)
IndexIn(c, s, i) ==
  IF i > Len(s) THEN 0 ELSE IF Ch(s, i) = c THEN i ELSE IndexIn(c, s, i + 1)

LowerCh(c) == LET i == IndexIn(c, UpperChars, 1)
              IN IF i = 0 THEN c ELSE Ch(LowerChars, i)
IsUpperCh(c) == IndexIn(c, UpperChars, 1) # 0
IsDigitCh(c) == IndexIn(c, DigitChars, 1) # 0

RECURSIVE ToLower(_)
ToLower(s) == IF s = "" THEN "" ELSE LowerCh(Ch(s, 1)) \o ToLower(From(s, 2))

RECURSIVE Trim(_)
Trim(s) ==
  IF s = "" THEN ""
  ELSE IF Ch(s, 1) = " " THEN Trim(From(s, 2))
  ELSE IF Ch(s, Len(s)) = " " THEN Trim(SubSeq(s, 1, Len(s) - 1))
  ELSE s

\* index of the first character of s that is in the set C, 0 when none
RECURSIVE FindFirst(_, _, _)
FindFirst(s, C, i) ==
  IF i > Len(s) THEN 0 ELSE IF Ch(s, i) \in C THEN i ELSE FindFirst(s, C, i + 1)

StartsWith(s, p) == Len(s) >= Len(p) /\ SubSeq(s, 1, Len(p)) = p
EndsWith(s, p) == Len(s) >= Len(p) /\ SubSeq(s, Len(s) - Len(p) + 1, Len(s)) = p

RECURSIVE SplitOn(_, _)
SplitOn(s, c) ==
  LET i == FindFirst(s, {c}, 1)
  IN IF i = 0 THEN << s >>
     ELSE << SubSeq(s, 1, i - 1) >> \o SplitOn(From(s, i + 1), c)

RECURSIVE ReplaceCh(_, _, _)
ReplaceCh(s, c, r) ==
  IF s = "" THEN ""
  ELSE (IF Ch(s, 1) = c THEN r ELSE Ch(s, 1)) \o ReplaceCh(From(s, 2), c, r)

RECURSIVE DigitsValue(_, _)
DigitsValue(s, acc) ==
  IF s = "" THEN acc
  ELSE DigitsValue(From(s, 2), Min(10 * acc + (IndexIn(Ch(s, 1), DigitChars, 1) - 1), 100000))

RECURSIVE AllDigits(_)
AllDigits(s) == s = "" \/ (IsDigitCh(Ch(s, 1)) /\ AllDigits(From(s, 2)))

RECURSIVE NatToStr(_)
NatToStr(n) ==
  IF n < 10 THEN Ch(DigitChars, n + 1)
  ELSE NatToStr(n \div 10) \o Ch(DigitChars, (n % 10) + 1)

(***************************************************************************)
(* normalizeUrl (lib/url-normalize.js).  The WHATWG URL parser is modelled *)
(* on the alphabet A-Z a-z 0-9 space _ - . : / ? # & = + % : an escape     *)
(* %XX is decoded when it stands for a character of this alphabet, a host  *)
(* is a domain or an IPv4 address (no userinfo, no IPv6 literal, no label  *)
(* in Punycode), and paths hold no dot segment.                            *)
(* The result is a string, or NullUrl for null.                            *)
(***************************************************************************)
trackingParams ==
  {"utm_source", "utm_medium", "utm_campaign", "utm_term", "utm_content",
   "utm_id", "fbclid", "gclid", "igshid", "mc_cid", "mc_eid",
   "ref", "ref_src", "spm"}

RECURSIVE SkipSlashes(_)
SkipSlashes(s) == IF s # "" /\ Ch(s, 1) = "/" THEN SkipSlashes(From(s, 2)) ELSE s

\* percent-encoding of the path and query states: of the alphabet only the
\* space is in their encode sets ("#" too when a setter supplies the text)
RECURSIVE PctEncode(_)
PctEncode(s) ==
  IF s = "" THEN ""
  ELSE (CASE Ch(s, 1) = " " -> "%20"
          [] Ch(s, 1) = "#" -> "%23"
          [] OTHER -> Ch(s, 1)) \o PctEncode(From(s, 2))

\* percent-decoding (of application/x-www-form-urlencoded names and values,
\* and of a host): the escapes of the alphabet, written with lower-case hex
PctCodes ==
  << <<"20", " ">>, <<"23", "#">>, <<"25", "%">>, <<"26", "&">>, <<"2b", "+">>,
     <<"2d", "-">>, <<"2e", ".">>, <<"2f", "/">>, <<"30", "0">>, <<"31", "1">>,
     <<"32", "2">>, <<"33", "3">>, <<"34", "4">>, <<"35", "5">>, <<"36", "6">>,
     <<"37", "7">>, <<"38", "8">>, <<"39", "9">>, <<"3a", ":">>, <<"3d", "=">>,
     <<"3f", "?">>, <<"41", "A">>, <<"42", "B">>, <<"43", "C">>, <<"44", "D">>,
     <<"45", "E">>, <<"46", "F">>, <<"47", "G">>, <<"48", "H">>, <<"49", "I">>,
     <<"4a", "J">>, <<"4b", "K">>, <<"4c", "L">>, <<"4d", "M">>, <<"4e", "N">>,
     <<"4f", "O">>, <<"50", "P">>, <<"51", "Q">>, <<"52", "R">>, <<"53", "S">>,
     <<"54", "T">>, <<"55", "U">>, <<"56", "V">>, <<"57", "W">>, <<"58", "X">>,
     <<"59", "Y">>, <<"5a", "Z">>, <<"5f", "_">>, <<"61", "a">>, <<"62", "b">>,
     <<"63", "c">>, <<"64", "d">>, <<"65", "e">>, <<"66", "f">>, <<"67", "g">>,
     <<"68", "h">>, <<"69", "i">>, <<"6a", "j">>, <<"6b", "k">>, <<"6c", "l">>,
     <<"6d", "m">>, <<"6e", "n">>, <<"6f", "o">>, <<"70", "p">>, <<"71", "q">>,
     <<"72", "r">>, <<"73", "s">>, <<"74", "t">>, <<"75", "u">>, <<"76", "v">>,
     <<"77", "w">>, <<"78", "x">>, <<"79", "y">>, <<"7a", "z">> >>

\* the character an escape stands for (hex digits in either case), "" when none
PctLookup(h) ==
  LET code == ToLower(h)
      hit == {i \in 1 .. Len(PctCodes) : PctCodes[i][1] = code}
  IN IF hit = {} THEN "" ELSE PctCodes[CHOOSE i \in hit : TRUE][2]

RECURSIVE PctDecode(_)
PctDecode(s) ==
  IF s = "" THEN ""
  ELSE IF Ch(s, 1) = "%" /\ Len(s) >= 3 /\ PctLookup(SubSeq(s, 2, 3)) # ""
       THEN PctLookup(SubSeq(s, 2, 3)) \o PctDecode(From(s, 4))
       ELSE Ch(s, 1) \o PctDecode(From(s, 2))

\* the text before / after the first character of s that is in C
Before(s, C) ==
  LET i == FindFirst(s, C, 1) IN IF i = 0 THEN s ELSE SubSeq(s, 1, i - 1)
After(s, C) ==
  LET i == FindFirst(s, C, 1) IN IF i = 0 THEN "" ELSE From(s, i + 1)
PathOf(s) ==
  LET i == FindFirst(s, {"/"}, 1) IN IF i = 0 THEN "/" ELSE From(s, i)

\* the forbidden domain code points of the alphabet
ForbiddenDomainChars == {" ", "#", "%", "/", ":", "?"}

HexChars == "0123456789abcdef"

\* the digits of s read in radix R on top of hi * 65536 + lo, not ok when a
\* character is no digit of the radix; the value is kept in two halves, hi
\* saturating at 65536 (a value of 2^32 or more)
RECURSIVE RadixValue(_, _, _, _)
RadixValue(s, R, hi, lo) ==
  IF s = "" THEN [ok |-> TRUE, hi |-> hi, lo |-> lo]
  ELSE IF IndexIn(Ch(s, 1), HexChars, 1) \notin 1 .. R
       THEN [ok |-> FALSE, hi |-> 0, lo |-> 0]
  ELSE RadixValue(From(s, 2), R,
                  Min(hi * R + ((lo * R + IndexIn(Ch(s, 1), HexChars, 1) - 1) \div 65536), 65536),
                  (lo * R + IndexIn(Ch(s, 1), HexChars, 1) - 1) % 65536)

\* the IPv4 number parser: 0x.. is hexadecimal, 0.. octal, else decimal
IPv4Number(input) ==
  IF input = "" THEN [ok |-> FALSE, hi |-> 0, lo |-> 0]
  ELSE IF StartsWith(input, "0x") THEN RadixValue(From(input, 3), 16, 0, 0)
  ELSE IF Len(input) >= 2 /\ Ch(input, 1) = "0" THEN RadixValue(From(input, 2), 8, 0, 0)
  ELSE RadixValue(input, 10, 0, 0)

\* the labels of a host, without one empty label at the end
HostParts(host) ==
  IF Len(SplitOn(host, ".")) > 1 /\ SplitOn(host, ".")[Len(SplitOn(host, "."))] = ""
  THEN SubSeq(SplitOn(host, "."), 1, Len(SplitOn(host, ".")) - 1)
  ELSE SplitOn(host, ".")

\* the ends-in-a-number checker
EndsInNumber(parts) ==
  \/ (parts[Len(parts)] # "" /\ AllDigits(parts[Len(parts)]))
  \/ IPv4Number(parts[Len(parts)]).ok

\* the checks of the IPv4 parser: at most four numbers, each parsed, all but
\* the last under 256, the last under 256^(5 - their count)
IPv4Ok(n) ==
  /\ Len(n) <= 4
  /\ \A i \in 1 .. Len(n) : n[i].ok
  /\ \A i \in 1 .. Len(n) - 1 : n[i].hi = 0 /\ n[i].lo <= 255
  /\ n[Len(n)].hi < (CASE Len(n) = 1 -> 65536 [] Len(n) = 2 -> 256 [] OTHER -> 1)
  /\ Len(n) = 4 => n[4].lo <= 255

\* the octets of the address: the leading numbers, then the bytes of the
\* last number
IPv4Octet(n, i) ==
  IF i < Len(n) THEN n[i].lo
  ELSE << n[Len(n)].hi \div 256, n[Len(n)].hi % 256,
          n[Len(n)].lo \div 256, n[Len(n)].lo % 256 >>[i]

\* the IPv4 parser and serializer on the numbers of the labels: the dotted
\* decimal address, "" when the parser fails
IPv4Text(n) ==
  IF ~IPv4Ok(n) THEN ""
  ELSE NatToStr(IPv4Octet(n, 1)) \o "." \o NatToStr(IPv4Octet(n, 2)) \o "."
       \o NatToStr(IPv4Octet(n, 3)) \o "." \o NatToStr(IPv4Octet(n, 4))

\* the host parser on a decoded, lower-cased host: the host as the record
\* keeps it, "" when the parser fails
DomainOrIPv4(domain) ==
  IF domain = "" \/ FindFirst(domain, ForbiddenDomainChars, 1) # 0 THEN ""
  ELSE IF EndsInNumber(HostParts(domain))
       THEN IPv4Text([i \in 1 .. Len(HostParts(domain)) |-> IPv4Number(HostParts(domain)[i])])
       ELSE domain

ParseHost(input) == DomainOrIPv4(ToLower(PctDecode(input)))

UrlRecord(scheme, host, portText, rawPath, query) ==
  [ok |-> /\ host # ""
          /\ AllDigits(portText)
          /\ DigitsValue(portText, 0) <= 65535,
   protocol |-> scheme \o ":",
   hostname |-> host,
   port |-> IF portText = ""
               \/ DigitsValue(portText, 0) = (IF scheme = "http" THEN 80 ELSE 443)
            THEN "" ELSE NatToStr(DigitsValue(portText, 0)),
   pathname |-> PctEncode(rawPath),
   search |-> IF query = "" THEN "" ELSE "?" \o PctEncode(query)]

ParseAuthority(scheme, authority, rawPath, query) ==
  UrlRecord(scheme, ParseHost(Before(authority, {":"})), After(authority, {":"}),
            rawPath, query)

ParseAfterScheme(scheme, noFrag) ==
  ParseAuthority(scheme, Before(Before(noFrag, {"?"}), {"/"}),
                 PathOf(Before(noFrag, {"?"})), After(noFrag, {"?"}))

\* new URL(url) for a text that starts with http:// or https:// :
\* a record of the parts, or ok = FALSE when the parser throws
ParseUrl(url) ==
  ParseAfterScheme(ToLower(Before(url, {":"})),
                   Before(SkipSlashes(After(url, {":"})), {"#"}))

\* u.searchParams: the list of <<name, value>> of a search string
RECURSIVE ParsePairs(_)
ParsePairs(pieces) ==
  IF pieces = << >> THEN << >>
  ELSE LET p == Head(pieces)
           eq == FindFirst(p, {"="}, 1)
           k == IF eq = 0 THEN p ELSE SubSeq(p, 1, eq - 1)
           v == IF eq = 0 THEN "" ELSE From(p, eq + 1)
       IN (IF p = "" THEN << >>
           ELSE << << PctDecode(ReplaceCh(k, "+", " ")),
                      PctDecode(ReplaceCh(v, "+", " ")) >> >>)
          \o ParsePairs(Tail(pieces))

SearchParams(search) ==
  IF search = "" THEN << >> ELSE ParsePairs(SplitOn(From(search, 2), "&"))

\* a.localeCompare(b) < 0 on the alphabet: the primary order ignores case,
\* at equal primary keys a lowercase letter sorts before its uppercase
RECURSIVE PrimaryCmp(_, _)
PrimaryCmp(a, b) ==
  IF a = "" /\ b = "" THEN 0
  ELSE IF a = "" THEN -1
  ELSE IF b = "" THEN 1
  ELSE LET x == IndexIn(LowerCh(Ch(a, 1)), CollationChars, 1)
           y == IndexIn(LowerCh(Ch(b, 1)), CollationChars, 1)
       IN IF x < y THEN -1 ELSE IF x > y THEN 1
          ELSE PrimaryCmp(From(a, 2), From(b, 2))

RECURSIVE CaseCmp(_, _)
CaseCmp(a, b) ==
  IF a = "" \/ b = "" THEN 0
  ELSE IF Ch(a, 1) = Ch(b, 1) THEN CaseCmp(From(a, 2), From(b, 2))
  ELSE IF IsUpperCh(Ch(b, 1)) THEN -1 ELSE 1

localeCompare(a, b) ==
  LET p == PrimaryCmp(a, b) IN IF p # 0 THEN p ELSE CaseCmp(a, b)

\* Array.prototype.sort with (a, b) => a[0].localeCompare(b[0]): stable
RECURSIVE InsertPair(_, _)
InsertPair(sorted, e) ==
  IF sorted = << >> THEN << e >>
  ELSE IF localeCompare(e[1], Head(sorted)[1]) < 0 THEN << e >> \o sorted
       ELSE << Head(sorted) >> \o InsertPair(Tail(sorted), e)

RECURSIVE SortPairs(_, _)
SortPairs(pairs, acc) ==
  IF pairs = << >> THEN acc
  ELSE SortPairs(Tail(pairs), InsertPair(acc, Head(pairs)))

RECURSIVE JoinPairs(_)
JoinPairs(pairs) ==
  IF pairs = << >> THEN ""
  ELSE Head(pairs)[1] \o "=" \o Head(pairs)[2]
       \o (IF Len(pairs) > 1 THEN "&" ELSE "") \o JoinPairs(Tail(pairs))

RECURSIVE DropTracking(_)
DropTracking(pairs) ==
  IF pairs = << >> THEN << >>
  ELSE (IF ToLower(Head(pairs)[1]) \in trackingParams THEN << >> ELSE << Head(pairs) >>)
       \o DropTracking(Tail(pairs))

\* a serialization that drops the trailing slash of the root path as well
AssembleStripRoot(u, sorted) ==
  u.protocol \o "//" \o u.hostname
  \o (IF u.port = "" THEN "" ELSE ":" \o u.port)
  \o (IF EndsWith(u.pathname, "/")
      THEN SubSeq(u.pathname, 1, Len(u.pathname) - 1)
      ELSE u.pathname)
  \o (IF sorted = << >> THEN "" ELSE "?" \o PctEncode(JoinPairs(sorted)))

\* the url put together again from its parts and the kept, sorted pairs
Assemble(u, sorted) ==
  u.protocol \o "//" \o u.hostname
  \o (IF u.port = "" THEN "" ELSE ":" \o u.port)
  \o (IF u.pathname # "/" /\ EndsWith(u.pathname, "/")
      THEN SubSeq(u.pathname, 1, Len(u.pathname) - 1)
      ELSE u.pathname)
  \o (IF sorted = << >> THEN "" ELSE "?" \o PctEncode(JoinPairs(sorted)))

Canonical(u) ==
  IF ~u.ok THEN NullUrl
  ELSE Assemble(u, SortPairs(DropTracking(SearchParams(u.search)), << >>))

WithScheme(trimmed) ==
  IF StartsWith(ToLower(trimmed), "http://") \/ StartsWith(ToLower(trimmed), "https://")
  THEN trimmed ELSE "https://" \o trimmed

normalizeUrl(rawUrl) ==
  IF rawUrl = NullUrl THEN NullUrl
  ELSE Canonical(ParseUrl(WithScheme(Trim(rawUrl))))

(***************************************************************************)
(* State.                                                                  *)
(***************************************************************************)
VARIABLES
  rss_sites,        \* store: rows of rss_sites [id, url, name, category, refresh]
  rss_news,         \* store: rows of rss_news [id, title, url, category, website, date]
  siteSeq,          \* AUTO_INCREMENT of rss_sites
  newsSeq,          \* AUTO_INCREMENT of rss_news
  activeIntervals,  \* per worker: FeedEmitter.activeIntervals, url -> [intervalId, feed]
  timers,           \* live setInterval handles [tid, w, feed, at]; at = the
                    \* second it was set or last elapsed
  failureTracker,   \* per worker: Aggregator.failureTracker, id ->
                    \* [count, originalInterval, oks]; oks is history for the
                    \* properties: the runs of the feed that succeeded since
                    \* the entry was made (2 stands for two or more)
  tasks,            \* async calls suspended on I/O, task id -> record
  published,        \* per worker: messages handed to publisher.publish, in order
  emitted,          \* per worker: events emitted on the FeedEmitter, in order
  proc,             \* per worker: "idle" (constructed), "up", "rejecting", "exited";
                    \* "destroyed": up, destroy() was called and no add/init since
  runSeq,           \* FeedManager.getContent calls started so far
  clock,            \* wall clock, seconds
  ticks,            \* timer elapses so far
  cmds              \* control messages received so far

vars == << rss_sites, rss_news, siteSeq, newsSeq, activeIntervals, timers,
           failureTracker, tasks, published, emitted, proc, runSeq, clock,
           ticks, cmds >>

World ==
  [sites |-> rss_sites, news |-> rss_news, siteSeq |-> siteSeq, newsSeq |-> newsSeq,
   ai |-> activeIntervals, timers |-> timers, ft |-> failureTracker, tasks |-> tasks,
   pub |-> published, emitted |-> emitted, proc |-> proc, runSeq |-> runSeq,
   now |-> clock]

Commit(W) ==
  /\ rss_sites' = W.sites
  /\ rss_news' = W.news
  /\ siteSeq' = W.siteSeq
  /\ newsSeq' = W.newsSeq
  /\ activeIntervals' = W.ai
  /\ timers' = W.timers
  /\ failureTracker' = W.ft
  /\ tasks' = W.tasks
  /\ published' = W.pub
  /\ emitted' = W.emitted
  /\ proc' = W.proc
  /\ runSeq' = W.runSeq

(***************************************************************************)
(* Records.                                                                *)
(***************************************************************************)
NoFeed == [id |-> NoId, url |-> NullUrl, name |-> "", category |-> 0, refresh |-> 0]
NoItem == [title |-> "", url |-> NullUrl, date |-> NaN, category |-> 0, website |-> NoId]

\* class Feed: the fields of a Feed instance built from a configuration
Feed(data) ==
  [id |-> data.id, url |-> data.url, name |-> data.name, category |-> data.category,
   refresh |-> IF data.refresh = 0 THEN DefaultRefresh ELSE data.refresh]

\* new Feed(data) throws a TypeError without url or id
FeedThrows(data) == data.url = NullUrl \/ data.id = NoId

NoTask ==
  [w |-> 0, kind |-> "", pc |-> "", feed |-> NoFeed, cfg |-> NoFeed, rest |-> << >>,
   count |-> 0, items |-> << >>, startTime |-> 0, run |-> 0, item |-> NoItem,
   dbId |-> NoId, id0 |-> NoId, all |-> << >>]

\* a pipeline run (FeedManager.getContent) is in flight in these positions
RunPcs == {"fetch", "bulk", "probe"}

Spawn(W, t) == [W EXCEPT !.tasks = Put(@, FreshIn(DOMAIN @), t)]
EndTask(W, id) == [W EXCEPT !.tasks = Del(@, id)]

Publish(W, w, m) == [W EXCEPT !.pub[w] = Append(@, m)]

ErrorMsg(name, url, feedId) ==
  [ch |-> "aggregator-errors", type |-> name, url |-> url, feedId |-> feedId,
   id |-> NoId, cat |-> 0, date |-> NaN, run |-> 0]

ItemMsg(item, id, run) ==
  [ch |-> "feed:wire", type |-> "new-item", url |-> item.url, feedId |-> item.website,
   id |-> id, cat |-> item.category, date |-> item.date, run |-> run]

ErrorEvent(name, url, feedId, run) ==
  [ev |-> "error", name |-> name, url |-> url, feedId |-> feedId, date |-> NaN, run |-> run]

ItemEvent(item, run) ==
  [ev |-> "new-item", name |-> "", url |-> item.url, feedId |-> item.website,
   date |-> item.date, run |-> run]

\* an unhandled promise rejection: the process 'unhandledRejection' handler
\* runs once the current turn of the event loop is over
Reject(W, w) == [W EXCEPT !.proc[w] = "rejecting"]

(***************************************************************************)
(* FeedEmitter: the synchronous parts.                                     *)
(***************************************************************************)
\* a stopFeedInterval that leaves the interval running
stopFeedIntervalKept(W, w, url) == W

\* FeedEmitter.stopFeedInterval
stopFeedInterval(W, w, url) ==
  IF url \in DOMAIN W.ai[w] /\ W.ai[w][url].intervalId # 0
  THEN [W EXCEPT !.timers = {t \in @ : ~(t.w = w /\ t.tid = W.ai[w][url].intervalId)},
                 !.ai[w][url].intervalId = 0]
  ELSE W

\* FeedEmitter.getFeedConfig: the Feed of the runtime entry, NoFeed for null
getFeedConfig(W, w, url) ==
  IF url \in DOMAIN W.ai[w] THEN W.ai[w][url].feed ELSE NoFeed

\* FeedEmitter.destroy
RECURSIVE StopAll(_, _, _)
StopAll(W, w, urls) ==
  IF urls = {} THEN W
  ELSE LET u == CHOOSE x \in urls : TRUE
       IN StopAll(stopFeedInterval(W, w, u), w, urls \ {u})

destroy(W, w) ==
  [StopAll(W, w, DOMAIN W.ai[w]) EXCEPT !.ai[w] = Empty]

(***************************************************************************)
(* Aggregator: the synchronous parts of the event handlers.                *)
(***************************************************************************)
\* models/error.js log: resolves null without type or message; otherwise the
\* parameter list reads the undeclared feed_Id and the call rejects
logRejects(type, message) == type # "" /\ message # ""

\* the interval computed by handleFeedFailure below the failure threshold
BackoffInterval(originalInterval, count) ==
  Min(originalInterval * Pow2(count - 1), MAX_INTERVAL_MS)

\* FeedEmitter.updateInterval up to its first await (addOrUpdate -> getByUrl)
updateInterval(W, w, url, newInterval) ==
  IF url \in DOMAIN W.ai[w]
  THEN LET feedConfig == W.ai[w][url].feed
           W1 == stopFeedInterval(W, w, url)
       IN Spawn(W1, [NoTask EXCEPT !.w = w, !.kind = "herr", !.pc = "getByUrl",
                                   !.cfg = [feedConfig EXCEPT !.refresh = newInterval]])
  ELSE W

\* Aggregator.handleFeedFailure up to its first await
handleFeedFailure(W, w, feedId, feedUrl, originalInterval) ==
  LET tracking == IF feedId \in DOMAIN W.ft[w] THEN W.ft[w][feedId]
                  ELSE [count |-> 0, originalInterval |-> originalInterval, oks |-> 0]
      counted == [tracking EXCEPT !.count = @ + 1]
      W1 == [W EXCEPT !.ft[w] = Put(@, feedId, counted)]
  IN IF counted.count >= MAX_CONSECUTIVE_FAILURES
     THEN \* feedEmitter.remove(feedUrl) up to feedService.remove
          Spawn(stopFeedInterval(W1, w, feedUrl),
                [NoTask EXCEPT !.w = w, !.kind = "herr", !.pc = "removeByUrl",
                               !.cfg = [NoFeed EXCEPT !.url = feedUrl, !.id = feedId],
                               !.count = counted.count])
     ELSE updateInterval(W1, w, feedUrl, BackoffInterval(originalInterval, counted.count))

\* Aggregator.handleShutdown
handleShutdown(W, w) ==
  [Publish(destroy(W, w), w,
           [ErrorMsg("shutdown", NullUrl, NoId) EXCEPT !.ch = "aggregator-status"])
     EXCEPT !.proc[w] = "exited"]

isTransientError(name) == name \in {"fetch_url_error", "parse_url_error"}
isCriticalError(name) == name \in {"db_connect_error", "redis_error"}

\* Aggregator.handleError(error), error = [name, url, feedId]; the awaited
\* dbError.log(...).catch(...) settles without I/O
handleError(W, w, error) ==
  LET W1 == Publish(W, w, ErrorMsg(error.name, error.url, error.feedId))
  IN IF isTransientError(error.name) /\ error.feedId # NoId /\ error.url # NullUrl
     THEN LET feedConfig == getFeedConfig(W1, w, error.url)
          IN IF feedConfig # NoFeed
             THEN handleFeedFailure(W1, w, error.feedId, error.url, feedConfig.refresh)
             ELSE W1
     ELSE IF isCriticalError(error.name)
     THEN handleShutdown(W1, w)
     ELSE [W1 EXCEPT !.ft[w] = Del(@, error.feedId)]

\* Aggregator.handleNewItem(item) up to its first await (itemService.insert)
handleNewItem(W, w, item, run) ==
  Spawn(W, [NoTask EXCEPT !.w = w, !.kind = "item", !.pc = "save", !.item = item,
                          !.run = run])

\* an emit of the error that reaches the listener twice
EmitErrorTwice(W, w, error, run) ==
  handleError(handleError([W EXCEPT !.emitted[w] =
                             Append(Append(@, ErrorEvent(error.name, error.url,
                                                         error.feedId, run)),
                                    ErrorEvent(error.name, error.url, error.feedId, run))],
                          w, error),
              w, error)

\* emitter.emit('error', error) with the listener Aggregator registers
EmitError(W, w, error, run) ==
  handleError([W EXCEPT !.emitted[w] =
                 Append(@, ErrorEvent(error.name, error.url, error.feedId, run))],
              w, error)

\* emitter.emit('new-item', item) with the listener Aggregator registers
EmitNewItem(W, w, item, run) ==
  handleNewItem([W EXCEPT !.emitted[w] = Append(@, ItemEvent(item, run))], w, item, run)

Err(name, url, feedId) == [name |-> name, url |-> url, feedId |-> feedId]

(***************************************************************************)
(* Feed and FeedManager: the pure steps of the pipeline.                   *)
(***************************************************************************)
\* a filter that lets every item through, whatever its date
filterItemsKeepAll(items, feed, now) ==
  [i \in DOMAIN items |->
     [title |-> items[i].title, url |-> items[i].link, date |-> items[i].date,
      category |-> feed.category, website |-> feed.id]]

\* Feed.filterItems: raw parser items [title, link, date] -> feed items
RECURSIVE filterItems(_, _, _)
filterItems(items, feed, now) ==
  IF items = << >> THEN << >>
  ELSE LET item == Head(items)
       IN (IF item.date # NaN /\ now - item.date <= OneDaySec
           THEN << [title |-> item.title, url |-> item.link, date |-> item.date,
                    category |-> feed.category, website |-> feed.id] >>
           ELSE << >>)
          \o filterItems(Tail(items), feed, now)

\* the comparator of FeedManager.sortItems
sortCompare(a, b) ==
  IF a.date = NaN \/ b.date = NaN
  THEN (IF a.date = NaN THEN 1 ELSE -1)
  ELSE a.date - b.date

RECURSIVE InsertItem(_, _)
InsertItem(sorted, e) ==
  IF sorted = << >> THEN << e >>
  ELSE IF sortCompare(e, Head(sorted)) < 0 THEN << e >> \o sorted
       ELSE << Head(sorted) >> \o InsertItem(Tail(sorted), e)

\* FeedManager.sortItems (Array.prototype.sort is stable)
RECURSIVE sortItems(_, _)
sortItems(items, acc) ==
  IF items = << >> THEN acc
  ELSE sortItems(Tail(items), InsertItem(acc, Head(items)))

\* a normalization that keeps the items whose url has no canonical form
normalizeItemsKeepNull(items, feed) ==
  [i \in DOMAIN items |-> [items[i] EXCEPT !.url = normalizeUrl(items[i].url)]]

\* persistFeedItems: the normalized, enriched items (null urls dropped)
RECURSIVE normalizeItems(_, _)
normalizeItems(items, feed) ==
  IF items = << >> THEN << >>
  ELSE LET item == Head(items)
           normalizedUrl == normalizeUrl(item.url)
       IN (IF normalizedUrl = NullUrl THEN << >>
           ELSE << [item EXCEPT !.url = normalizedUrl,
                                !.website = IF item.website # NoId THEN item.website
                                            ELSE feed.id,
                                !.category = IF item.category # 0 THEN item.category
                                             ELSE feed.category] >>)
          \o normalizeItems(Tail(items), feed)

(***************************************************************************)
(* The store: statements of models/feed.js and models/item.js against the  *)
(* schema of config/database.sql.                                          *)
(***************************************************************************)
SiteByUrl(sites, url) == {r \in sites : r.url = url}

\* INSERT IGNORE INTO rss_news ... VALUES ?: a row that breaks
\* uq_website_url or fk_news_website is skipped
RECURSIVE bulkInsertIgnore(_, _, _)
bulkInsertIgnore(W, values, now) ==
  IF values = << >> THEN W
  ELSE LET v == Head(values)
           skip == \/ \E r \in W.news : r.website = v.website /\ r.url = v.url
                   \/ ~ \E r \in W.sites : r.id = v.website
           W1 == IF skip THEN W
                 ELSE [W EXCEPT !.news = @ \cup {[id |-> W.newsSeq, title |-> v.title,
                                                  url |-> v.url, category |-> v.category,
                                                  website |-> v.website, date |-> now]},
                                !.newsSeq = @ + 1]
       IN bulkInsertIgnore(W1, Tail(values), now)

\* the probe with a strict comparison of dates: date > ?
getInsertedItemsAfter(news, websiteId, urls, startTime) ==
  {r.url : r \in {x \in news : x.website = websiteId /\ x.url \in urls
                                /\ x.date > startTime}}

\* SELECT url FROM rss_news WHERE website = ? AND url IN (?) AND date >= ?
getInsertedItemsByUrlAndDate(news, websiteId, urls, startTime) ==
  {r.url : r \in {x \in news : x.website = websiteId /\ x.url \in urls
                                /\ x.date >= startTime}}

RECURSIVE UrlsOf(_)
UrlsOf(items) == IF items = << >> THEN {} ELSE {Head(items).url} \cup UrlsOf(Tail(items))

RECURSIVE FilterByUrl(_, _)
FilterByUrl(items, urls) ==
  IF items = << >> THEN << >>
  ELSE (IF Head(items).url \in urls THEN << Head(items) >> ELSE << >>)
       \o FilterByUrl(Tail(items), urls)

\* SELECT ... FROM rss_sites: the rows in primary-key order
RECURSIVE RowsById(_)
RowsById(rows) ==
  IF rows = {} THEN << >>
  ELSE LET r == CHOOSE x \in rows : \A y \in rows : x.id <= y.id
       IN << r >> \o RowsById(rows \ {r})

(***************************************************************************)
(* Continuations: what an async call does once the I/O it awaited is over, *)
(* up to its next I/O.  The task is W.tasks[id].                            *)
(***************************************************************************)
\* FeedEmitter.startFeedInterval(feedConfig) up to the fetch of the first
\* getContent; threw = TRUE when new Feed(...) throws
startFeedInterval(W, id, feedConfig) ==
  LET W1 == stopFeedInterval(W, W.tasks[id].w, feedConfig.url)
  IN IF FeedThrows(feedConfig)
     THEN [W |-> W1, threw |-> TRUE]
     ELSE [W |-> [W1 EXCEPT !.tasks[id].pc = "fetch",
                            !.tasks[id].feed = Feed(feedConfig),
                            !.tasks[id].run = W1.runSeq + 1,
                            !.runSeq = @ + 1],
           threw |-> FALSE]

\* FeedEmitter.add: the loop over the configurations still to process, up to
\* the store lookup of addOrUpdate, or to the closing `await this.list`
RECURSIVE addLoop(_, _, _)
addLoop(W, id, configs) ==
  IF configs = << >>
  THEN [W EXCEPT !.tasks[id].pc = "list", !.tasks[id].rest = << >>]
  ELSE IF Head(configs).url = NullUrl
       THEN \* validateFeedObject throws; the catch emits and the loop goes on
            addLoop(EmitError(W, W.tasks[id].w, Err("type_error", NullUrl, NoId), 0),
                    id, Tail(configs))
       ELSE [W EXCEPT !.tasks[id].pc = "getByUrl",
                      !.tasks[id].cfg = Head(configs),
                      !.tasks[id].rest = Tail(configs)]

\* an exception leaves addOrUpdate or startFeedInterval: the handler of the
\* caller that awaits it
raise(W, id, error) ==
  LET t == W.tasks[id]
  IN CASE t.kind = "herr" ->
            \* nothing catches inside handleError: its promise rejects
            Reject(EndTask(W, id), t.w)
       [] t.kind \in {"add", "replace"} ->
            addLoop(EmitError(W, t.w, error, 0), id, t.rest)
       [] OTHER ->
            \* init: the catch emits db_error and returns 0
            EndTask(EmitError(W, t.w, Err("db_error", NullUrl, NoId), 0), id)

\* FeedEmitter.init: the loop over the loaded configurations
initLoop(W, id, configs, startedCount) ==
  IF configs = << >>
  THEN EndTask(W, id)
  ELSE LET r == startFeedInterval(W, id, Head(configs))
       IN IF r.threw
          THEN raise(r.W, id, Err("TypeError", NullUrl, NoId))
          ELSE [r.W EXCEPT !.tasks[id].rest = Tail(configs),
                           !.tasks[id].count = startedCount]

\* add / updateInterval: startFeedInterval(dbFeedConfig) after addOrUpdate
startAfterUpsert(W, id, dbFeedConfig) ==
  LET r == startFeedInterval(W, id, dbFeedConfig)
  IN IF r.threw THEN raise(r.W, id, Err("TypeError", NullUrl, NoId)) ELSE r.W

\* the caller of startFeedInterval resumes
continueAfterStart(W, id) ==
  LET t == W.tasks[id]
  IN CASE t.kind = "herr" -> EndTask(W, id)
       [] t.kind \in {"add", "replace"} -> addLoop(W, id, t.rest)
       [] OTHER -> initLoop(W, id, t.rest, t.count + 1)

\* FeedEmitter.createSetInterval: the handle setInterval returns, null (0)
\* when getContent reported failure
createSetInterval(W, w, feed, success) ==
  IF success THEN FreshIn({x.tid : x \in {y \in W.timers : y.w = w}}) ELSE 0

\* getContent returned: a timer callback ends; createSetInterval sets the
\* interval and startFeedInterval records the runtime entry
afterGetContent(W, id, success) ==
  LET t == W.tasks[id]
      intervalId == createSetInterval(W, t.w, t.feed, success)
      W1 == IF intervalId # 0
            THEN [W EXCEPT !.timers = @ \cup {[tid |-> intervalId, w |-> t.w,
                                               feed |-> t.feed, at |-> W.now]}]
            ELSE W
      W2 == [W1 EXCEPT !.ai[t.w] = Put(@, t.feed.url,
                                       [intervalId |-> intervalId, feed |-> t.feed])]
  IN IF t.kind = "tick" THEN EndTask(W, id) ELSE continueAfterStart(W2, id)

\* history: a run of the feed went through without an error
RunOk(W, w, feedId) ==
  IF feedId \in DOMAIN W.ft[w] THEN [W EXCEPT !.ft[w][feedId].oks = Min(@ + 1, 2)] ELSE W

\* FeedManager.emitNewItems (skipFirstLoad is false)
RECURSIVE emitNewItems(_, _, _, _)
emitNewItems(W, w, newItems, run) ==
  IF newItems = << >> THEN W
  ELSE emitNewItems(EmitNewItem(W, w, Head(newItems), run), w, Tail(newItems), run)

\* process.exit: nothing of an exited worker is left
Settle(W) ==
  [W EXCEPT !.tasks = [i \in {j \in DOMAIN W.tasks : W.proc[W.tasks[j].w] # "exited"}
                         |-> W.tasks[i]],
            !.timers = {t \in W.timers : W.proc[t.w] # "exited"}]

Step(W) ==
  /\ Cardinality(DOMAIN Settle(W).tasks) <= MaxInFlight
  /\ Commit(Settle(W))

\* the process of the task is alive ("destroyed": its emitter was destroyed)
Running(id) == id \in DOMAIN tasks /\ proc[tasks[id].w] \in {"up", "destroyed"}

(***************************************************************************)
(* Inputs.                                                                 *)
(***************************************************************************)
T0 == 100000
U1 == "https://feed.test/a"
U2 == "https://feed.test/b"

Site(id, url, refresh) ==
  [id |-> id, url |-> url, name |-> "n", category |-> 1, refresh |-> refresh]

\* raw parser items [title, link, date]
Raw(title, link, date) == [title |-> title, link |-> link, date |-> date]

BodyOld == << Raw("o", "https://ex.test/o", T0 - OneDaySec - 1) >>
BodyOne == << Raw("a", "https://ex.test/a", T0 - 300) >>
BodyDup == << Raw("a1", "https://ex.test/a?utm_source=x", T0 - 300),
              Raw("a2", "https://ex.test/a", T0 - 200) >>
BodyBA == << Raw("b", "https://ex.test/b", T0 - 100),
             Raw("a", "HTTPS://EX.test:443/a/", T0 - 300) >>

\* the names of the errors Feed.fetchData routes to the handler: a status
\* other than 200, no items parsed, a network error thrown by fetch
FetchErrors == {"fetch_url_error", "parse_url_error", "TypeError"}

\* control messages on the 'aggregator' channel.  urlIsString tells whether
\* message.url is a string ("" included); a message without url has it FALSE
\* and its config reads the url as NullUrl
Msg(cmd, url, refresh) ==
  [cmd |-> cmd, urlIsString |-> TRUE,
   config |-> [NoFeed EXCEPT !.url = url, !.name = "m", !.category = 2,
                             !.refresh = refresh]]

(***************************************************************************)
(* Actions: one per event-loop turn that an I/O completion, a timer or a   *)
(* message starts.                                                         *)
(***************************************************************************)
\* Aggregator.#initEmitter: feedEmitter.init() up to feedService.getAll
Start(w) ==
  /\ proc[w] = "idle"
  /\ Step(Spawn([World EXCEPT !.proc[w] = "up"],
                [NoTask EXCEPT !.w = w, !.kind = "init", !.pc = "getAll"]))
  /\ UNCHANGED << clock, ticks, cmds >>

\* dbFeed.get resolves: FeedEmitter.init goes through the rows
GetAllDone(id) ==
  /\ Running(id) /\ tasks[id].pc = "getAll"
  /\ Step(initLoop(World, id, RowsById(rss_sites), 0))
  /\ UNCHANGED << clock, ticks, cmds >>

\* the `await this.list` closing FeedEmitter.add resolves
ListDone(id) ==
  /\ Running(id) /\ tasks[id].pc = "list"
  /\ Step(EndTask(World, id))
  /\ UNCHANGED << clock, ticks, cmds >>

\* the period in ms setInterval(fn, feed.refresh) runs with: a delay under 1
\* or over 2^31 - 1 is set to 1
TimerDelay(refresh) == IF refresh < 1 \/ refresh > 2147483647 THEN 1 ELSE refresh

\* a setInterval handle elapses: () => feedManager.getContent().  The handle
\* is alive as long as the process runs and the handle is not cleared, also
\* when it was set after destroy().  With a period of a second or more the
\* wall clock shows a later second than when the handle was set or last
\* elapsed; a shorter period elapses within the same second
TimerFire(w, t) ==
  /\ proc[w] \in {"up", "destroyed"} /\ t \in timers /\ t.w = w
  /\ ticks < MaxTicks
  /\ clock > t.at \/ TimerDelay(t.feed.refresh) < 1000
  /\ Step(Spawn([World EXCEPT !.runSeq = @ + 1,
                              !.timers = (@ \ {t}) \cup {[t EXCEPT !.at = clock]}],
                [NoTask EXCEPT !.w = w, !.kind = "tick", !.pc = "fetch",
                               !.feed = t.feed, !.run = runSeq + 1]))
  /\ ticks' = ticks + 1
  /\ UNCHANGED << clock, cmds >>

\* Feed.fetchData fails (HTTP status, no items parsed, network error): the
\* catch routes the error to the handler and returns []; getContent returns
\* true on an empty list
FetchFails(id, name) ==
  /\ Running(id) /\ tasks[id].pc = "fetch"
  /\ LET t == tasks[id]
     IN Step(afterGetContent(EmitError(World, t.w, Err(name, t.feed.url, t.feed.id), t.run),
                             id, TRUE))
  /\ UNCHANGED << clock, ticks, cmds >>

\* Feed.fetchData returns the items of the last 24 hours; getContent sorts
\* them and persistFeedItems normalizes them up to the bulk insert
FetchOk(id, body) ==
  /\ Running(id) /\ tasks[id].pc = "fetch"
  /\ LET t == tasks[id]
         items == sortItems(filterItems(body, t.feed, clock), << >>)
         normalizedItems == normalizeItems(items, t.feed)
     IN Step(IF normalizedItems = << >>
             THEN afterGetContent(RunOk(World, t.w, t.feed.id), id, TRUE)
             ELSE [World EXCEPT !.tasks[id].pc = "bulk",
                                !.tasks[id].items = normalizedItems,
                                !.tasks[id].startTime = clock])
  /\ UNCHANGED << clock, ticks, cmds >>

\* the INSERT IGNORE of persistFeedItems resolves
BulkDone(id) ==
  /\ Running(id) /\ tasks[id].pc = "bulk"
  /\ Step([bulkInsertIgnore(World, tasks[id].items, clock) EXCEPT !.tasks[id].pc = "probe"])
  /\ UNCHANGED << clock, ticks, cmds >>

\* the SELECT of persistFeedItems resolves: newItems are emitted and
\* getContent returns true
ProbeDone(id) ==
  /\ Running(id) /\ tasks[id].pc = "probe"
  /\ LET t == tasks[id]
         rows == getInsertedItemsByUrlAndDate(rss_news, t.feed.id, UrlsOf(t.items),
                                              t.startTime)
         newItems == FilterByUrl(t.items, rows)
     IN Step(afterGetContent(emitNewItems(RunOk(World, t.w, t.feed.id), t.w, newItems,
                                          t.run),
                             id, TRUE))
  /\ UNCHANGED << clock, ticks, cmds >>

\* ItemModel.save settles inside ItemService.insert; Aggregator.handleNewItem
\* goes on: publish on feed:wire:<category>, clear the failure tracking
SaveDone(id) ==
  /\ Running(id) /\ tasks[id].pc = "save"
  /\ LET t == tasks[id]
         item == t.item
         dup == \E r \in rss_news : r.website = item.website /\ r.url = item.url
         orphan == ~ \E r \in rss_sites : r.id = item.website
         W0 == EndTask(World, id)
         done(W, newId) ==
           [Publish(W, t.w, ItemMsg(item, newId, t.run))
              EXCEPT !.ft[t.w] = Del(@, item.website)]
     IN Step(IF dup
             THEN \* ER_DUP_ENTRY: insert returns null
                  done(W0, NoId)
             ELSE IF orphan
             THEN \* fk_news_website: insert throws, the catch only logs
                  W0
             ELSE done([W0 EXCEPT !.news = @ \cup {[id |-> W0.newsSeq, title |-> item.title,
                                                    url |-> item.url,
                                                    category |-> item.category,
                                                    website |-> item.website,
                                                    date |-> clock]},
                                  !.newsSeq = @ + 1],
                       W0.newsSeq))
  /\ UNCHANGED << clock, ticks, cmds >>

\* dbFeed.getByUrl resolves inside FeedService.addOrUpdate
GetByUrlDone(id) ==
  /\ Running(id) /\ tasks[id].pc = "getByUrl"
  /\ LET existing == SiteByUrl(rss_sites, tasks[id].cfg.url)
     IN Step(IF existing # {}
             THEN [World EXCEPT !.tasks[id].pc = "update",
                                !.tasks[id].dbId = (CHOOSE r \in existing : TRUE).id]
             ELSE [World EXCEPT !.tasks[id].pc = "insert"])
  /\ UNCHANGED << clock, ticks, cmds >>

\* dbFeed.update settles.  The statement has four placeholders
\* (name, category, refresh, url) and is executed with five values
\* (name, url, category, refresh, id): the driver either rejects the call or
\* binds the first four, and then no row has url = <refresh>
UpdateOutcomes == {"noop", "throws"}

UpdateDone(id, outcome) ==
  /\ Running(id) /\ tasks[id].pc = "update"
  /\ LET t == tasks[id]
     IN Step(IF outcome = "throws"
             THEN raise(World, id, Err("db_error", t.cfg.url, t.cfg.id))
             ELSE startAfterUpsert(World, id, [t.cfg EXCEPT !.id = t.dbId]))
  /\ UNCHANGED << clock, ticks, cmds >>

\* dbFeed.insert settles: uq_url may reject; otherwise the row is inserted and
\* `result.insertId` is read off the [result, fields] pair: undefined
InsertDone(id) ==
  /\ Running(id) /\ tasks[id].pc = "insert"
  /\ LET t == tasks[id]
     IN Step(IF SiteByUrl(rss_sites, t.cfg.url) # {}
             THEN raise(World, id, Err("db_error", t.cfg.url, t.cfg.id))
             ELSE startAfterUpsert(
                    [World EXCEPT !.sites = @ \cup {[id |-> siteSeq, url |-> t.cfg.url,
                                                     name |-> t.cfg.name,
                                                     category |-> t.cfg.category,
                                                     refresh |-> t.cfg.refresh]},
                                  !.siteSeq = @ + 1],
                    id, [t.cfg EXCEPT !.id = NoId]))
  /\ UNCHANGED << clock, ticks, cmds >>

\* dbFeed.removeByUrl settles inside FeedEmitter.remove; fk_news_website
\* (ON DELETE RESTRICT) rejects the delete of a site that has news rows
RemoveDone(id) ==
  /\ Running(id) /\ tasks[id].pc = "removeByUrl"
  /\ LET t == tasks[id]
         site == SiteByUrl(rss_sites, t.cfg.url)
         restricted == \E r \in site : \E n \in rss_news : n.website = r.id
         W0 == IF restricted THEN World ELSE [World EXCEPT !.sites = @ \ site]
     IN Step(CASE t.kind = "herr" ->
                    \* Aggregator.handleFeedFailure after `await remove`
                    IF restricted
                    THEN Reject(EndTask(W0, id), t.w)
                    ELSE LET W1 == Publish([W0 EXCEPT !.ft[t.w] = Del(@, t.cfg.id)], t.w,
                                           ErrorMsg("permanent_failure", t.cfg.url, t.cfg.id))
                         IN IF logRejects("permanent_failure", "Feed disabled")
                            THEN Reject(EndTask(W1, id), t.w)
                            ELSE EndTask(W1, id)
               [] t.kind = "replace" ->
                    \* handleRedisMessage: remove, then add(message)
                    IF restricted THEN EndTask(W0, id)
                    ELSE addLoop([W0 EXCEPT !.proc[t.w] = "up"], id, << t.cfg >>)
               [] OTHER -> EndTask(W0, id))
  /\ UNCHANGED << clock, ticks, cmds >>

\* Aggregator.handleRedisMessage for an add, remove or replace message, up
\* to the first await of its async function (which nothing awaits).  add:
\* FeedEmitter.add up to its first await.  remove and replace:
\* FeedEmitter.remove, which throws type_error when `typeof url` is not
\* 'string' before it touches anything (the catch of the handler logs it,
\* and the add of a replace is never reached); for a string, the empty one
\* included, it runs up to feedService.remove
handleRedisMessage(W, w, msg) ==
  LET id == FreshIn(DOMAIN W.tasks)
      row == SiteByUrl(W.sites, msg.config.url)
      task == [NoTask EXCEPT !.w = w, !.kind = msg.cmd, !.cfg = msg.config,
                             \* for the properties: the store id of the url
                             \* when the message arrives
                             !.id0 = IF row = {} THEN NoId
                                     ELSE (CHOOSE r \in row : TRUE).id]
  IN IF msg.cmd = "add"
     THEN addLoop(Spawn([W EXCEPT !.proc[w] = "up"], task), id, << msg.config >>)
     ELSE IF ~msg.urlIsString
     THEN W
     ELSE Spawn(stopFeedInterval(W, w, msg.config.url),
                [task EXCEPT !.pc = "removeByUrl"])

\* Aggregator.handleRedisMessage(channel, data): the subscriber hands over a
\* message as long as the process runs, also after destroy()
Command(w, msg) ==
  /\ proc[w] \in {"up", "destroyed"}
  /\ cmds < MaxCmds
  /\ Step(handleRedisMessage(World, w, msg))
  /\ cmds' = cmds + 1
  /\ UNCHANGED << clock, ticks >>

\* a dispatch that compares the command without regard to case
switchCmdAnyCase(data) ==
  IF ~data.parses THEN "catch"
  ELSE IF ToLower(data.cmd) \in {"add", "remove", "replace"} THEN ToLower(data.cmd)
  ELSE "default"

\* handleRedisMessage: JSON.parse(data) and `switch (message.cmd)`.  data is
\* [parses, cmd, urlIsString, url, refresh]: whether the text is JSON, and
\* the fields of the parsed message ("" for no cmd; urlIsString FALSE and
\* url NullUrl for no url).  The result is the branch taken:
\* the catch, a case, or the default
switchCmd(data) ==
  IF ~data.parses THEN "catch"
  ELSE IF data.cmd \in {"add", "remove", "replace"} THEN data.cmd
  ELSE "default"

\* Aggregator.handleRedisMessage(channel, data) for any text received: the
\* catch and the default branch only write to the console
Message(w, data) ==
  IF switchCmd(data) \in {"catch", "default"}
  THEN /\ proc[w] \in {"up", "destroyed"}
       /\ cmds < MaxCmds
       /\ Step(World)
       /\ cmds' = cmds + 1
       /\ UNCHANGED << clock, ticks >>
  ELSE Command(w, [Msg(switchCmd(data), data.url, data.refresh)
                     EXCEPT !.urlIsString = data.urlIsString])

\* Aggregator.handleUnhandledRejection
UnhandledRejection(w) ==
  /\ proc[w] = "rejecting"
  /\ Step([destroy(World, w) EXCEPT !.proc[w] = "exited"])
  /\ UNCHANGED << clock, ticks, cmds >>

\* a second of wall-clock time passes
ClockTick ==
  /\ clock < T0 + MaxClock
  /\ clock' = clock + 1
  /\ UNCHANGED << rss_sites, rss_news, siteSeq, newsSeq, activeIntervals, timers,
                  failureTracker, tasks, published, emitted, proc, runSeq, ticks, cmds >>

(***************************************************************************)
(* The scheduler of one worker: startup, timers, failures, control         *)
(* messages.                                                               *)
(***************************************************************************)
R0 == 60000
\* the messages received: add, remove and replace with a url; a remove and a
\* replace whose url is the empty string; a remove and a replace without url
Cmds == {Msg("add", U1, 120000), Msg("add", U2, 120000), Msg("remove", U1, 0),
         Msg("replace", U1, 120000), Msg("remove", "", 0), Msg("replace", "", 120000),
         [Msg("remove", NullUrl, 0) EXCEPT !.urlIsString = FALSE],
         [Msg("replace", NullUrl, 120000) EXCEPT !.urlIsString = FALSE]}

Init ==
  /\ rss_sites = {Site(1, U1, R0)}
  /\ rss_news = {}
  /\ siteSeq = 2
  /\ newsSeq = 1
  /\ activeIntervals = [w \in Workers |-> Empty]
  /\ timers = {}
  /\ failureTracker = [w \in Workers |-> Empty]
  /\ tasks = Empty
  /\ published = [w \in Workers |-> << >>]
  /\ emitted = [w \in Workers |-> << >>]
  /\ proc = [w \in Workers |-> "idle"]
  /\ runSeq = 0
  /\ clock = T0
  /\ ticks = 0
  /\ cmds = 0

Next ==
  \/ Start(1)
  \/ \E id \in DOMAIN tasks : GetAllDone(id)
  \/ \E id \in DOMAIN tasks : ListDone(id)
  \/ \E id \in DOMAIN tasks : FetchFails(id, "parse_url_error")
  \/ \E id \in DOMAIN tasks : FetchOk(id, BodyOne)
  \/ \E id \in DOMAIN tasks : BulkDone(id)
  \/ \E id \in DOMAIN tasks : ProbeDone(id)
  \/ \E id \in DOMAIN tasks : SaveDone(id)
  \/ \E id \in DOMAIN tasks : GetByUrlDone(id)
  \/ \E id \in DOMAIN tasks : \E outcome \in UpdateOutcomes : UpdateDone(id, outcome)
  \/ \E id \in DOMAIN tasks : InsertDone(id)
  \/ \E id \in DOMAIN tasks : RemoveDone(id)
  \/ \E msg \in Cmds : Command(1, msg)
  \/ UnhandledRejection(1)

Spec == Init /\ [][Next]_vars

(***************************************************************************)
(* Failures and backoff: one worker, its timers, no control message.       *)
(***************************************************************************)
\* the store may hold items of the feed from earlier days
OldNews == {[id |-> 1, title |-> "o", url |-> "https://ex.test/o", category |-> 1,
             website |-> 1, date |-> T0 - OneDaySec - 1]}

InitBackoff ==
  /\ rss_sites = {Site(1, U1, R0)}
  /\ rss_news \in {{}, OldNews}
  /\ siteSeq = 2
  /\ newsSeq = 2
  /\ activeIntervals = [w \in Workers |-> Empty]
  /\ timers = {}
  /\ failureTracker = [w \in Workers |-> Empty]
  /\ tasks = Empty
  /\ published = [w \in Workers |-> << >>]
  /\ emitted = [w \in Workers |-> << >>]
  /\ proc = [w \in Workers |-> "idle"]
  /\ runSeq = 0
  /\ clock = T0
  /\ ticks = 0
  /\ cmds = 0

NextBackoff ==
  \/ Start(1)
  \/ \E id \in DOMAIN tasks : GetAllDone(id)
  \/ \E t \in timers : TimerFire(t.w, t)
  \/ \E id \in DOMAIN tasks : \E name \in FetchErrors \ {"parse_url_error"} :
        FetchFails(id, name)
  \/ \E id \in DOMAIN tasks : FetchOk(id, BodyOld)
  \/ \E id \in DOMAIN tasks : GetByUrlDone(id)
  \/ \E id \in DOMAIN tasks : \E outcome \in UpdateOutcomes : UpdateDone(id, outcome)
  \/ \E id \in DOMAIN tasks : RemoveDone(id)
  \/ UnhandledRejection(1)
  \/ ClockTick

SpecBackoff == InitBackoff /\ [][NextBackoff]_vars

(***************************************************************************)
(* The pipeline under two workers that start on the same store.            *)
(***************************************************************************)
NextPipe ==
  \/ \E w \in Workers : Start(w)
  \/ \E id \in DOMAIN tasks : GetAllDone(id)
  \/ \E id \in DOMAIN tasks : \E body \in {BodyDup, BodyBA} : FetchOk(id, body)
  \/ \E id \in DOMAIN tasks : BulkDone(id)
  \/ \E id \in DOMAIN tasks : ProbeDone(id)
  \/ \E id \in DOMAIN tasks : SaveDone(id)
  \/ ClockTick

SpecPipe == Init /\ [][NextPipe]_vars

(***************************************************************************)
(* Properties.                                                             *)
(***************************************************************************)
\* worker w runs and none of its async calls is in flight
Quiet(w) == proc[w] = "up" /\ \A id \in DOMAIN tasks : tasks[id].w # w

NewItemAt(w, i) == emitted[w][i].ev = "new-item"
WireAt(w, i) == published[w][i].ch = "feed:wire"

\* C1: for a feed whose refresh is R when its failure tracking starts, once N
\* consecutive transient failures (1 <= N < 5, no successful run in between)
\* have been handled, the refresh held by the store for the feed and the
\* refresh of its timer are min(R * 2^(N-1), 86 400 000).  The handling of
\* the N-th failure ends with the first fetch of the restarted interval, so
\* the state is the quiet one in which that fetch was the only success.
C1_BackoffRefresh ==
  \A w \in Workers : \A fid \in DOMAIN failureTracker[w] :
    LET tr == failureTracker[w][fid]
        expected == BackoffInterval(tr.originalInterval, tr.count)
    IN (Quiet(w) /\ tr.count < MAX_CONSECUTIVE_FAILURES /\ tr.oks = 1) =>
         /\ \E r \in rss_sites : r.id = fid /\ r.refresh = expected
         /\ \E t \in timers : t.w = w /\ t.feed.id = fid
         /\ \A t \in timers : (t.w = w /\ t.feed.id = fid) => t.feed.refresh = expected

\* C2: when the handling of the 5th consecutive transient failure of a feed
\* ends (handleFeedFailure got past `await remove`), the feed has no store
\* row, no entry in the active-feed map, no live timer and no failureTracker
\* entry, and permanent_failure has been published on aggregator-errors.
C2_PermanentRemoval ==
  [][\A id \in DOMAIN tasks :
       LET t == tasks[id]
       IN (/\ t.kind = "herr" /\ t.pc = "removeByUrl"
           /\ id \notin DOMAIN tasks'
           /\ proc'[t.w] # "exited") =>
            /\ SiteByUrl(rss_sites', t.cfg.url) = {}
            /\ t.cfg.url \notin DOMAIN activeIntervals'[t.w]
            /\ ~ \E x \in timers' : x.w = t.w /\ x.feed.url = t.cfg.url
            /\ t.cfg.id \notin DOMAIN failureTracker'[t.w]
            /\ \E i \in DOMAIN published'[t.w] :
                 /\ published'[t.w][i].ch = "aggregator-errors"
                 /\ published'[t.w][i].type = "permanent_failure"
                 /\ published'[t.w][i].url = t.cfg.url]_vars

\* C3: when a tick of a feed ends without an error (fetch and parse succeed,
\* the pipeline raises nothing), also when it inserted no item, the
\* failureTracker has no entry for the feed.
C3_TrackerCleared ==
  [][\A id \in DOMAIN tasks :
       LET t == tasks[id]
       IN (/\ t.kind = "tick" /\ t.pc \in RunPcs
           /\ id \notin DOMAIN tasks'
           /\ proc'[t.w] = "up"
           /\ ~ \E i \in DOMAIN emitted'[t.w] :
                  emitted'[t.w][i].ev = "error" /\ emitted'[t.w][i].run = t.run) =>
            t.feed.id \notin DOMAIN failureTracker'[t.w]]_vars

\* C4: within one worker at most one pipeline run (FeedManager.getContent)
\* is in flight per feed url at any time.
C4_OneRunPerUrl ==
  \A id1 \in DOMAIN tasks : \A id2 \in DOMAIN tasks :
    (/\ id1 # id2
     /\ tasks[id1].w = tasks[id2].w
     /\ tasks[id1].pc \in RunPcs /\ tasks[id2].pc \in RunPcs) =>
      tasks[id1].feed.url # tasks[id2].feed.url

\* C5: across all runs of all workers on one store a new-item event for a
\* (website, canonical url) is emitted at most once: no run emits an item
\* that another run, of the same or of another worker, has emitted.
C5_EmittedOnce ==
  \A w1 \in Workers : \A w2 \in Workers :
    \A i \in DOMAIN emitted[w1] : \A j \in DOMAIN emitted[w2] :
      (/\ NewItemAt(w1, i) /\ NewItemAt(w2, j)
       /\ emitted[w1][i].feedId = emitted[w2][j].feedId
       /\ emitted[w1][i].url = emitted[w2][j].url) =>
        emitted[w1][i].run = emitted[w2][j].run

\* C6: when the items of one run hold two or more urls with the same
\* canonical form, the run emits one new-item event for that canonical url.
C6_OnePerCanonicalUrl ==
  \A w \in Workers : \A i \in DOMAIN emitted[w] : \A j \in DOMAIN emitted[w] :
    (/\ NewItemAt(w, i) /\ NewItemAt(w, j)
     /\ emitted[w][i].run = emitted[w][j].run
     /\ emitted[w][i].feedId = emitted[w][j].feedId
     /\ emitted[w][i].url = emitted[w][j].url) =>
      i = j

\* C7: when two workers run the pipeline for the same feed at the same time,
\* then in every interleaving of their bulk inserts and probes the store
\* holds one row per (website, url), and every row has been emitted by at
\* least one worker once no run that inserted it before its probe is left.
C7_RowsUniqueAndEmitted ==
  /\ \A r1 \in rss_news : \A r2 \in rss_news :
       (r1.website = r2.website /\ r1.url = r2.url) => r1 = r2
  /\ \A r \in rss_news :
       r.date >= T0 =>
         \/ \E id \in DOMAIN tasks :
              /\ tasks[id].pc = "probe"
              /\ tasks[id].feed.id = r.website
              /\ r.url \in UrlsOf(tasks[id].items)
              /\ tasks[id].startTime <= r.date
         \/ \E w \in Workers : \E i \in DOMAIN emitted[w] :
              /\ NewItemAt(w, i)
              /\ emitted[w][i].feedId = r.website
              /\ emitted[w][i].url = r.url

\* C7 happens: both workers ran the pipeline over the same two unseen urls,
\* worker 1 inserted and emitted both, worker 2 inserted nothing and is at
\* its probe
C7_Witness ==
  /\ Cardinality(rss_news) = 2
  /\ \E i \in DOMAIN emitted[1] : \E j \in DOMAIN emitted[1] :
       /\ NewItemAt(1, i) /\ NewItemAt(1, j)
       /\ emitted[1][i].url # emitted[1][j].url
  /\ \E id \in DOMAIN tasks :
       /\ tasks[id].w = 2 /\ tasks[id].pc = "probe"
       /\ UrlsOf(tasks[id].items) = {r.url : r \in rss_news}

\* C8: the messages published on feed:wire:<category> for the new items of
\* one run are in ascending order of publication date.
C8_PublishOrder ==
  \A w \in Workers : \A i \in DOMAIN published[w] : \A j \in DOMAIN published[w] :
    (/\ i < j
     /\ WireAt(w, i) /\ WireAt(w, j)
     /\ published[w][i].run = published[w][j].run) =>
      published[w][i].date <= published[w][j].date

\* C9: when remove(url) of a control message completes for an active feed,
\* the feed has no live timer, no runtime entry (getFeedConfig(url) is null)
\* and no store row; for a url that is not active the call leaves the
\* runtime state as it is.
C9_RemoveDestroys ==
  [][\A id \in DOMAIN tasks :
       LET t == tasks[id]
       IN (/\ t.kind = "remove" /\ t.pc = "removeByUrl"
           /\ id \notin DOMAIN tasks'
           /\ proc'[t.w] = "up") =>
            IF t.cfg.url \in DOMAIN activeIntervals[t.w]
            THEN /\ ~ \E x \in timers' : x.w = t.w /\ x.feed.url = t.cfg.url
                 /\ t.cfg.url \notin DOMAIN activeIntervals'[t.w]
                 /\ SiteByUrl(rss_sites', t.cfg.url) = {}
            ELSE /\ activeIntervals' = activeIntervals
                 /\ timers' = timers]_vars

\* C10: when the handling of a replace message ends for a url that had a
\* store row, the store holds the row under the same id with the new name,
\* category and refresh, and one timer runs for the url, at the new refresh.
C10_ReplaceInPlace ==
  [][\A id \in DOMAIN tasks :
       LET t == tasks[id]
       IN (/\ t.kind = "replace" /\ t.id0 # NoId
           /\ id \notin DOMAIN tasks'
           /\ proc'[t.w] = "up") =>
            /\ \E r \in rss_sites' :
                 /\ r.url = t.cfg.url /\ r.id = t.id0
                 /\ r.name = t.cfg.name /\ r.category = t.cfg.category
                 /\ r.refresh = t.cfg.refresh
            /\ Cardinality({x \in timers' : x.w = t.w /\ x.feed.url = t.cfg.url}) = 1
            /\ \A x \in timers' :
                 (x.w = t.w /\ x.feed.url = t.cfg.url) => x.feed.refresh = t.cfg.refresh]_vars

\* the positions of FeedEmitter.add: the store upsert, the first fetch of the
\* started interval, the closing list
AddPcs == {"getByUrl", "update", "insert", "fetch", "bulk", "probe", "list"}

\* C11: in the handling of a replace message the remove phase is over before
\* the add phase begins: the message starts with the remove (the interval
\* handle of the url's runtime entry is cleared and no longer live, the call
\* waits on the store delete, nothing of add has run), and add starts in the
\* step in which the delete has completed, with no row left for the url.
C11_RemoveBeforeAdd ==
  [][\A id \in DOMAIN tasks' :
       LET t == tasks'[id]
       IN t.kind = "replace" =>
            /\ id \notin DOMAIN tasks =>
                 /\ t.pc = "removeByUrl"
                 /\ t.cfg.url \in DOMAIN activeIntervals[t.w] =>
                      /\ activeIntervals'[t.w][t.cfg.url].intervalId = 0
                      /\ ~ \E x \in timers' :
                             /\ x.w = t.w
                             /\ x.tid = activeIntervals[t.w][t.cfg.url].intervalId
            /\ (id \in DOMAIN tasks /\ t.pc \in AddPcs) =>
                 \/ tasks[id].pc \in AddPcs
                 \/ /\ tasks[id].pc = "removeByUrl"
                    /\ SiteByUrl(rss_sites', t.cfg.url) = {}
                    /\ SiteByUrl(rss_sites, t.cfg.url) # {} =>
                         /\ t.pc = "getByUrl"]_vars

\* C11 happens: a replace of a url that had a row and a running timer is in
\* its add phase, the row deleted
C11_Witness ==
  \E id \in DOMAIN tasks :
    /\ tasks[id].kind = "replace" /\ tasks[id].id0 # NoId
    /\ tasks[id].pc = "insert"
    /\ SiteByUrl(rss_sites, tasks[id].cfg.url) = {}
    /\ tasks[id].cfg.url \in DOMAIN activeIntervals[tasks[id].w]

\* C12: when an add(config) call ends, the store holds exactly one row for
\* config.url, carrying the configuration (under the id the url had before
\* the call, when it had a row), and a timer of the feed is running.
C12_AddUpserts ==
  [][\A id \in DOMAIN tasks :
       LET t == tasks[id]
       IN (/\ t.kind = "add" /\ t.pc = "list"
           /\ id \notin DOMAIN tasks'
           /\ proc'[t.w] = "up") =>
            /\ Cardinality(SiteByUrl(rss_sites', t.cfg.url)) = 1
            /\ \A r \in SiteByUrl(rss_sites', t.cfg.url) :
                 /\ t.id0 # NoId => r.id = t.id0
                 /\ r.name = t.cfg.name /\ r.category = t.cfg.category
                 /\ r.refresh = t.cfg.refresh
            /\ \E x \in timers' : x.w = t.w /\ x.feed.url = t.cfg.url]_vars

(***************************************************************************)
(* FeedEmitter.add called with a list of configurations.                   *)
(***************************************************************************)
\* what the interface asks of a configuration: a url, and a refresh that is
\* a positive number when one is given (0 stands for none given)
ValidConfig(config) == config.url # NullUrl /\ config.refresh >= 0

GoodConfig == [NoFeed EXCEPT !.url = U1, !.name = "g", !.category = 2, !.refresh = 120000]
NoUrlConfig == [NoFeed EXCEPT !.name = "x", !.category = 2, !.refresh = 120000]
BadRefreshConfig == [NoFeed EXCEPT !.url = U2, !.name = "y", !.category = 2, !.refresh = -5]
AddLists == {<< NoUrlConfig, GoodConfig >>, << BadRefreshConfig, GoodConfig >>}

\* FeedEmitter.add(...userFeedConfig) up to its first await; `all` keeps the
\* configurations of the call for the properties
AddCall(w, configs) ==
  /\ proc[w] \in {"up", "destroyed"}
  /\ cmds < MaxCmds
  /\ LET id == FreshIn(DOMAIN tasks)
     IN Step(addLoop(Spawn([World EXCEPT !.proc[w] = "up"], [NoTask EXCEPT !.w = w, !.kind = "add", !.all = configs]),
                     id, configs))
  /\ cmds' = cmds + 1
  /\ UNCHANGED << clock, ticks >>

NextAdd ==
  \/ Start(1)
  \/ \E id \in DOMAIN tasks : GetAllDone(id)
  \/ \E configs \in AddLists : AddCall(1, configs)
  \/ \E id \in DOMAIN tasks : ListDone(id)
  \/ \E t \in timers : TimerFire(t.w, t)
  \/ \E id \in DOMAIN tasks : FetchOk(id, BodyOld)
  \/ \E id \in DOMAIN tasks : GetByUrlDone(id)
  \/ \E id \in DOMAIN tasks : \E outcome \in UpdateOutcomes : UpdateDone(id, outcome)
  \/ \E id \in DOMAIN tasks : InsertDone(id)

SpecAdd == Init /\ [][NextAdd]_vars

\* the events named type_error among a worker's emitted events
TypeErrors(events) == {i \in DOMAIN events : events[i].ev = "error" /\ events[i].name = "type_error"}

\* C13: when an add call ends, every invalid configuration of the call (no
\* url, or a refresh that is not a positive number) has been answered with a
\* type_error event, has written no row and started no timer, and every other
\* configuration of the call has been processed (its url has a row).
C13_InvalidSkipped ==
  [][\A id \in DOMAIN tasks :
       LET t == tasks[id]
           invalid == {i \in DOMAIN t.all : ~ValidConfig(t.all[i])}
       IN (/\ t.kind = "add" /\ t.all # << >> /\ t.pc = "list"
           /\ id \notin DOMAIN tasks'
           /\ proc'[t.w] = "up") =>
            /\ Cardinality(TypeErrors(emitted'[t.w])) = Cardinality(invalid)
            /\ \A i \in invalid :
                 t.all[i].url # NullUrl =>
                   /\ SiteByUrl(rss_sites', t.all[i].url) = {}
                   /\ ~ \E x \in timers' : x.w = t.w /\ x.feed.url = t.all[i].url
            /\ \A i \in DOMAIN t.all \ invalid :
                 SiteByUrl(rss_sites', t.all[i].url) # {}]_vars

\* C14: whenever the worker runs and none of its scheduler operations is in
\* flight, the urls that have a live timer in the worker are the urls that
\* have a row in rss_sites.
C14_TimersMatchStore ==
  \A w \in Workers :
    Quiet(w) => {t.feed.url : t \in {x \in timers : x.w = w}} = {r.url : r \in rss_sites}

\* C15: whenever the worker runs and none of its scheduler operations is in
\* flight, every active feed (a runtime entry with a live interval) has a
\* store row whose refresh is the period of its timer and the refresh of the
\* Feed that getFeedConfig returns.
C15_RefreshAgrees ==
  \A w \in Workers : \A url \in DOMAIN activeIntervals[w] :
    (Quiet(w) /\ activeIntervals[w][url].intervalId # 0) =>
      /\ \E r \in rss_sites :
           r.url = url /\ r.refresh = getFeedConfig(World, w, url).refresh
      /\ \A x \in timers :
           (x.w = w /\ x.tid = activeIntervals[w][url].intervalId) =>
             x.feed.refresh = getFeedConfig(World, w, url).refresh

(***************************************************************************)
(* destroy() and reloadFeeds() while the scheduler runs.                   *)
(***************************************************************************)
\* FeedEmitter.destroy() called by the owner of the emitter
DestroyCall(w) ==
  /\ proc[w] \in {"up", "destroyed"}
  /\ Step([destroy(World, w) EXCEPT !.proc[w] = "destroyed"])
  /\ UNCHANGED << clock, ticks, cmds >>

\* FeedEmitter.reloadFeeds() called by the owner of the emitter: destroy()
\* and init() up to feedService.getAll
ReloadCall(w) ==
  /\ proc[w] \in {"up", "destroyed"}
  /\ cmds < MaxCmds
  /\ Step(Spawn([destroy(World, w) EXCEPT !.proc[w] = "up"],
                [NoTask EXCEPT !.w = w, !.kind = "reload", !.pc = "getAll"]))
  /\ cmds' = cmds + 1
  /\ UNCHANGED << clock, ticks >>

\* Aggregator.handleUncaughtException: destroy() and process.exit(1)
handleUncaughtException(W, w) == [destroy(W, w) EXCEPT !.proc[w] = "exited"]

\* the process receives {command: 'reload'}.  The listener is registered as
\* process.on('message', this.handleProcessMessage), not bound to the
\* Aggregator: `this` is the process, `this.feedEmitter.reloadFeeds()` throws
\* a TypeError out of the listener, and the 'uncaughtException' handler runs
ProcessMessage(w) ==
  /\ proc[w] \in {"up", "destroyed"}
  /\ Step(handleUncaughtException(World, w))
  /\ UNCHANGED << clock, ticks, cmds >>

NextReload ==
  \/ Start(1)
  \/ \E id \in DOMAIN tasks : GetAllDone(id)
  \/ \E id \in DOMAIN tasks : FetchOk(id, BodyOld)
  \/ DestroyCall(1)
  \/ ReloadCall(1)
  \/ ProcessMessage(1)
  \/ ClockTick

SpecReload == InitBackoff /\ [][NextReload]_vars

\* C16: after destroy(), and as long as no add or init is called, the worker
\* has no live timer and its active-feed map is empty.
C16_DestroyedStaysEmpty ==
  \A w \in Workers :
    proc[w] = "destroyed" =>
      /\ ~ \E x \in timers : x.w = w
      /\ activeIntervals[w] = Empty

\* C17: when reloadFeeds() has ended and nothing else of the scheduler is in
\* flight, the active feeds are the feeds of the store, each with one live
\* timer, at the refresh of its row (cmds counts the reloadFeeds() calls).
C17_ReloadLikeFreshInit ==
  \A w \in Workers :
    (Quiet(w) /\ cmds > 0) =>
      /\ {u \in DOMAIN activeIntervals[w] : activeIntervals[w][u].intervalId # 0}
           = {r.url : r \in rss_sites}
      /\ \A r \in rss_sites :
           /\ Cardinality({x \in timers : x.w = w /\ x.feed.url = r.url}) = 1
           /\ \A x \in timers : (x.w = w /\ x.feed.url = r.url) => x.feed.refresh = r.refresh

\* C19: every failure of the fetch of a run, a transport failure (fetch
\* throws; the error event is the one the step appends for the run) like a
\* status other than 200, is reported as fetch_url_error (parse_url_error
\* for a body without items) and, when the feed has a runtime entry, adds
\* one to the feed's count of consecutive failures.
C19_TransportCounts ==
  [][\A id \in DOMAIN tasks :
       LET t == tasks[id]
           n == Len(emitted[t.w])
       IN (/\ t.pc = "fetch"
           /\ Len(emitted'[t.w]) > n
           /\ emitted'[t.w][n + 1].ev = "error"
           /\ emitted'[t.w][n + 1].run = t.run
           /\ proc'[t.w] # "exited") =>
            /\ isTransientError(emitted'[t.w][n + 1].name)
            /\ getFeedConfig(World, t.w, t.feed.url) # NoFeed =>
                 /\ t.feed.id \in DOMAIN failureTracker'[t.w]
                 /\ failureTracker'[t.w][t.feed.id].count =
                      (IF t.feed.id \in DOMAIN failureTracker[t.w]
                       THEN failureTracker[t.w][t.feed.id].count ELSE 0) + 1]_vars

(***************************************************************************)
(* Store errors: a statement of the store rejects.                         *)
(***************************************************************************)
\* the error of a rejected statement wrapped with the feed it belongs to
StoreErrorOfFeed(feed) == Err("db_error", feed.url, feed.id)

\* the error persistFeedItems lets through when addBulkInsertIgnore or
\* getInsertedItemsByUrlAndDate rejects: the driver's Error, which has no
\* feed and no feedId (ItemService wraps neither call)
StoreError(feed) == Err("Error", NullUrl, NoId)

\* the bulk insert or the probe of persistFeedItems rejects: the catch of
\* getContent emits the error and returns false
PersistFails(id) ==
  /\ Running(id) /\ tasks[id].pc \in {"bulk", "probe"}
  /\ LET t == tasks[id]
     IN Step(afterGetContent(EmitError(World, t.w, StoreError(t.feed), t.run), id, FALSE))
  /\ UNCHANGED << clock, ticks, cmds >>

\* dbFeed.get rejects: FeedService.getAll throws db_error into the catch of
\* FeedEmitter.init
GetAllFails(id) ==
  /\ Running(id) /\ tasks[id].pc = "getAll"
  /\ Step(raise(World, id, Err("db_error", NullUrl, NoId)))
  /\ UNCHANGED << clock, ticks, cmds >>

\* one worker with its timers; the fetch fails on timer ticks only, so fewer
\* than MAX_CONSECUTIVE_FAILURES failures are handled
NextFaults ==
  \/ Start(1)
  \/ \E id \in DOMAIN tasks : GetAllDone(id)
  \/ \E id \in DOMAIN tasks : GetAllFails(id)
  \/ \E t \in timers : TimerFire(t.w, t)
  \/ \E id \in DOMAIN tasks : \E name \in {"fetch_url_error", "parse_url_error"} :
        tasks[id].kind = "tick" /\ FetchFails(id, name)
  \/ \E id \in DOMAIN tasks : FetchOk(id, BodyOne)
  \/ \E id \in DOMAIN tasks : BulkDone(id)
  \/ \E id \in DOMAIN tasks : ProbeDone(id)
  \/ \E id \in DOMAIN tasks : PersistFails(id)
  \/ \E id \in DOMAIN tasks : SaveDone(id)
  \/ \E id \in DOMAIN tasks : GetByUrlDone(id)
  \/ \E id \in DOMAIN tasks : UpdateDone(id, "noop")
  \/ ClockTick

SpecFaults == Init /\ [][NextFaults]_vars

\* C18: init() counts a configuration of the store as started only when it
\* started it (its interval is running), so the number it returns is the
\* number of feeds it started; when the load of the store fails it emits
\* exactly one db_error event and starts nothing (and returns 0).
C18_InitCountsStarted ==
  [][\A id \in DOMAIN tasks :
       LET t == tasks[id]
           n == Len(emitted[t.w])
           counted == \/ id \notin DOMAIN tasks'
                      \/ tasks'[id].count = t.count + 1
       IN (t.kind = "init" /\ proc'[t.w] = "up") =>
            /\ (t.pc \in RunPcs /\ counted) =>
                 \E x \in timers' \ timers : x.w = t.w /\ x.feed.url = t.feed.url
            /\ (t.pc = "getAll" /\ id \notin DOMAIN tasks' /\ Len(emitted'[t.w]) > n) =>
                 /\ Len(emitted'[t.w]) = n + 1
                 /\ emitted'[t.w][n + 1].ev = "error"
                 /\ emitted'[t.w][n + 1].name = "db_error"
                 /\ timers' = timers
                 /\ activeIntervals' = activeIntervals]_vars

\* C20: when the bulk insert or the probe of a run fails with a store error
\* (the step appends the error event of the run), the run has emitted and
\* emits no new-item event, and the step leaves the failureTracker as it is.
C20_StoreErrorKeepsTracker ==
  [][\A id \in DOMAIN tasks :
       LET t == tasks[id]
           n == Len(emitted[t.w])
       IN (/\ t.pc \in {"bulk", "probe"}
           /\ Len(emitted'[t.w]) > n
           /\ emitted'[t.w][n + 1].ev = "error"
           /\ emitted'[t.w][n + 1].run = t.run) =>
            /\ failureTracker' = failureTracker
            /\ id \notin DOMAIN tasks' \/ tasks'[id].pc \notin RunPcs
            /\ ~ \E i \in DOMAIN emitted'[t.w] :
                   emitted'[t.w][i].ev = "new-item" /\ emitted'[t.w][i].run = t.run]_vars

\* C20 happens: a timer tick of a feed that has a failureTracker entry failed
\* at its bulk insert or probe, and the entry is still there
C20_Witness ==
  \E w \in Workers : \E i \in DOMAIN emitted[w] :
    /\ emitted[w][i].ev = "error" /\ emitted[w][i].name = "Error"
    /\ \E j \in 1 .. (i - 1) : emitted[w][j].name = "fetch_url_error"
    /\ \E fid \in DOMAIN failureTracker[w] : failureTracker[w][fid].count >= 1
    /\ \E r \in rss_news : r.date >= T0

\* the error events of run r among the events of an emitter
ErrorsOfRun(events, r) == {i \in DOMAIN events : events[i].ev = "error" /\ events[i].run = r}

\* C21: a run of the pipeline (a tick, or the first fetch of a started
\* interval) that fails at its fetch, its parse or a store statement has one
\* error event on the emitter: no run has two, and the step in which a run
\* fails appends one event, the error of that run, and ends the run.
C21_OneErrorPerRun ==
  [][\A id \in DOMAIN tasks :
       LET t == tasks[id]
           n == Len(emitted[t.w])
       IN (t.pc \in RunPcs /\ proc'[t.w] # "exited") =>
            /\ Cardinality(ErrorsOfRun(emitted'[t.w], t.run)) <= 1
            /\ (\E i \in ErrorsOfRun(emitted'[t.w], t.run) : i > n) =>
                 /\ Len(emitted'[t.w]) = n + 1
                 /\ ErrorsOfRun(emitted[t.w], t.run) = {}
                 /\ id \notin DOMAIN tasks' \/ tasks'[id].pc \notin RunPcs]_vars

\* C21 happens: a run failed at its fetch, a run failed at its parse and a
\* run failed at a store statement, and all their handling is over
C21_Witness ==
  /\ Quiet(1)
  /\ \E i \in DOMAIN emitted[1] : emitted[1][i].name = "Error"
  /\ \E i \in DOMAIN emitted[1] :
       emitted[1][i].name \in {"fetch_url_error", "parse_url_error"}

\* C22: a tick whose fetch yields no item (the body parses to a feed without
\* items, or every parsed item is filtered out) ends at the fetch: the step
\* writes nothing to the store, emits no new-item event and leaves the
\* failureTracker as it is.
C22_EmptyTickChangesNothing ==
  [][\A id \in DOMAIN tasks :
       LET t == tasks[id]
           n == Len(emitted[t.w])
           fresh == {i \in DOMAIN emitted'[t.w] : i > n}
       IN (/\ t.kind = "tick" /\ t.pc = "fetch"
           /\ id \notin DOMAIN tasks'
           /\ \A i \in fresh : /\ emitted'[t.w][i].run = t.run
                                /\ emitted'[t.w][i].name # "fetch_url_error") =>
            /\ rss_news' = rss_news
            /\ rss_sites' = rss_sites
            /\ \A i \in fresh : emitted'[t.w][i].ev # "new-item"
            /\ failureTracker' = failureTracker]_vars

\* C23: every new-item message published on feed:wire:<category> carries the
\* id of the rss_news row that holds the item's (website, url), which is not
\* null, and the item's category and website.
C23_EnvelopeHasStoreId ==
  \A w \in Workers : \A i \in DOMAIN published[w] :
    WireAt(w, i) =>
      /\ published[w][i].id # NoId
      /\ \E r \in rss_news :
           /\ r.id = published[w][i].id
           /\ r.website = published[w][i].feedId
           /\ r.url = published[w][i].url
           /\ r.category = published[w][i].cat

(***************************************************************************)
(* Timer ticks in flight while the feed is removed or the emitter is       *)
(* destroyed or reloaded.                                                  *)
(***************************************************************************)
NextDiscard ==
  \/ Start(1)
  \/ \E id \in DOMAIN tasks : GetAllDone(id)
  \/ \E t \in timers : TimerFire(t.w, t)
  \/ \E id \in DOMAIN tasks : \E body \in {BodyOld, BodyOne} : FetchOk(id, body)
  \/ \E id \in DOMAIN tasks : BulkDone(id)
  \/ \E id \in DOMAIN tasks : ProbeDone(id)
  \/ \E id \in DOMAIN tasks : SaveDone(id)
  \/ Command(1, Msg("remove", U1, 0))
  \/ \E id \in DOMAIN tasks : RemoveDone(id)
  \/ DestroyCall(1)
  \/ ReloadCall(1)
  \/ ProcessMessage(1)
  \/ ClockTick

SpecDiscard == Init /\ [][NextDiscard]_vars

\* the runtime entry of the url has been cleared: destroy() emptied the map,
\* or stopFeedInterval cleared the interval of the entry
Cleared(w, url) ==
  url \notin DOMAIN activeIntervals[w] \/ activeIntervals[w][url].intervalId = 0

\* C24: a timer tick that is in flight (at its fetch, its bulk insert or its
\* probe) when the runtime entry of its feed has been cleared by remove(url),
\* destroy() or reloadFeeds() emits no new-item event from then on.
C24_ClearedTickDiscarded ==
  [][\A id \in DOMAIN tasks :
       LET t == tasks[id]
           n == Len(emitted[t.w])
       IN (t.kind = "tick" /\ t.pc \in RunPcs /\ Cleared(t.w, t.feed.url)) =>
            ~ \E i \in DOMAIN emitted'[t.w] :
                /\ i > n
                /\ emitted'[t.w][i].ev = "new-item"
                /\ emitted'[t.w][i].run = t.run]_vars

\* C25: a failure of dbError.log is swallowed.  The step in which
\* handleFeedFailure has published permanent_failure and logs the removal
\* (the log call fails) raises no unhandled rejection, emits no error event
\* and leaves the worker running.
C25_LogFailureSwallowed ==
  [][\A id \in DOMAIN tasks :
       LET t == tasks[id]
           n == Len(published[t.w])
       IN (/\ t.kind = "herr" /\ t.pc = "removeByUrl"
           /\ id \notin DOMAIN tasks'
           /\ Len(published'[t.w]) > n
           /\ published'[t.w][n + 1].type = "permanent_failure"
           /\ logRejects("permanent_failure", "Feed disabled")) =>
            /\ proc'[t.w] = "up"
            /\ emitted'[t.w] = emitted[t.w]]_vars

(***************************************************************************)
(* A store with two feeds.                                                 *)
(***************************************************************************)
InitTwo ==
  /\ rss_sites = {Site(1, U1, R0), Site(2, U2, R0)}
  /\ rss_news = {}
  /\ siteSeq = 3
  /\ newsSeq = 1
  /\ activeIntervals = [w \in Workers |-> Empty]
  /\ timers = {}
  /\ failureTracker = [w \in Workers |-> Empty]
  /\ tasks = Empty
  /\ published = [w \in Workers |-> << >>]
  /\ emitted = [w \in Workers |-> << >>]
  /\ proc = [w \in Workers |-> "idle"]
  /\ runSeq = 0
  /\ clock = T0
  /\ ticks = 0
  /\ cmds = 0

NextTwo ==
  \/ Start(1)
  \/ \E id \in DOMAIN tasks : GetAllDone(id)
  \/ \E t \in timers : TimerFire(t.w, t)
  \/ \E id \in DOMAIN tasks : \E body \in {BodyOld, BodyOne} : FetchOk(id, body)
  \/ \E id \in DOMAIN tasks : BulkDone(id)
  \/ \E id \in DOMAIN tasks : ProbeDone(id)
  \/ \E id \in DOMAIN tasks : SaveDone(id)
  \/ ClockTick

SpecTwo == InitTwo /\ [][NextTwo]_vars

\* the feed of the url has been started in worker w: its first fetch is in
\* flight or over
Started(w, url) ==
  \/ url \in DOMAIN activeIntervals[w]
  \/ \E id \in DOMAIN tasks :
       tasks[id].w = w /\ tasks[id].pc \in RunPcs /\ tasks[id].feed.url = url

\* C26: feeds progress independently.  Once init() has loaded the feeds of
\* the store, every one of them has been started, whatever the state of the
\* fetch of another: no feed waits for the fetch of another feed to end.
C26_FeedsIndependent ==
  \A id \in DOMAIN tasks :
    (tasks[id].kind = "init" /\ tasks[id].pc \in RunPcs) =>
      \A r \in rss_sites : Started(tasks[id].w, r.url)

(***************************************************************************)
(* The items of a fetch: dates around the 24-hour limit, urls that cannot  *)
(* be canonicalized, urls with percent-encoded query values.               *)
(***************************************************************************)
\* links of items that are given as title too, so that an item handed on
\* shows the link it was fetched with next to its url: variants of one
\* resource, links without scheme
VariantLinks ==
  << "https://ex.test/a?x=1", "https://ex.test/a?UTM_Source=n&x=1&fbclid=z",
     "https://ex.test/b", "HTTPS://EX.Test:443/b#top",
     "http://ex.test/e", "http://ex.test:80/e",
     "https://ex.test/c", "https://ex.test/c/",
     "https://ex.test/d/", "https://ex.test/d//",
     "example.com", "Example.com/x/" >>

\* the bodies a fetch may return: one with an invalid date, a date 24 hours
\* and a second before T0, a date 24 hours before T0 and a fresh date; one
\* with a null url, a url that does not parse and a url without scheme; one
\* with a percent-encoded "&" in a query value and an unsorted query; one
\* with the VariantLinks
ItemBodies ==
  { << Raw("n", "https://ex.test/n", NaN),
       Raw("o", "https://ex.test/o", T0 - OneDaySec - 1),
       Raw("e", "https://ex.test/e", T0 - OneDaySec),
       Raw("a", "https://ex.test/a", T0 - 300) >>,
    << Raw("u", NullUrl, T0 - 300),
       Raw("v", "https://bad host/v", T0 - 200),
       Raw("b", "EX.test/b/", T0 - 100) >>,
    << Raw("p", "https://ex.test/p?q=a%26b", T0 - 300),
       Raw("c", "https://ex.test/c?y=2&x=1", T0 - 200) >>,
    [i \in DOMAIN VariantLinks |-> Raw(VariantLinks[i], VariantLinks[i], T0 - 300)] }

\* texts on the 'aggregator' channel that are no add, remove or replace: not
\* JSON, an unknown cmd, a cmd in capitals, no cmd
OtherMessages ==
  {[parses |-> FALSE, cmd |-> "", urlIsString |-> FALSE, url |-> NullUrl, refresh |-> 0],
   [parses |-> TRUE, cmd |-> "purge", urlIsString |-> TRUE, url |-> U1, refresh |-> 0],
   [parses |-> TRUE, cmd |-> "REMOVE", urlIsString |-> TRUE, url |-> U1, refresh |-> 0],
   [parses |-> TRUE, cmd |-> "", urlIsString |-> TRUE, url |-> U1, refresh |-> 120000]}

NextItems ==
  \/ Start(1)
  \/ \E id \in DOMAIN tasks : GetAllDone(id)
  \/ \E t \in timers : TimerFire(t.w, t)
  \/ \E id \in DOMAIN tasks : \E body \in ItemBodies : FetchOk(id, body)
  \/ \E id \in DOMAIN tasks : BulkDone(id)
  \/ \E id \in DOMAIN tasks : ProbeDone(id)
  \/ \E id \in DOMAIN tasks : SaveDone(id)
  \/ \E data \in OtherMessages : Message(1, data)
  \/ ClockTick

SpecItems == Init /\ [][NextItems]_vars

\* the raw items the fetches of SpecItems return
FetchedItems == UNION {{body[i] : i \in DOMAIN body} : body \in ItemBodies}

\* normalizeUrl over the links of the fetched items
CanonOf == [x \in FetchedItems |-> normalizeUrl(x.link)]

\* at the time `now`, the publication date is missing or invalid, or more
\* than 24 hours back
Stale(date, now) == date = NaN \/ now - date > OneDaySec

\* the url is in a row the pipeline wrote, in a new-item event or in a
\* published new-item message
Surfaced(url) ==
  \/ \E r \in rss_news : r.url = url
  \/ \E w \in Workers : \E i \in DOMAIN emitted[w] :
       NewItemAt(w, i) /\ emitted[w][i].url = url
  \/ \E w \in Workers : \E i \in DOMAIN published[w] :
       WireAt(w, i) /\ published[w][i].url = url

\* C27: an item whose publication date is missing or invalid, or more than
\* 24 hours before the fetch, is dropped by the feed source: the items a fetch
\* hands on to the store are all dated within 24 hours of the fetch, and an
\* item that is stale at every fetch is in no row, no new-item event and no
\* published message.
C27_StaleItemsDropped ==
  /\ [](\A x \in FetchedItems : Stale(x.date, T0) => ~Surfaced(CanonOf[x]))
  /\ [][\A id \in DOMAIN tasks :
          (tasks[id].pc = "fetch" /\ id \in DOMAIN tasks' /\ tasks'[id].pc = "bulk") =>
            \A i \in DOMAIN tasks'[id].items :
              ~Stale(tasks'[id].items[i].date, clock)]_vars

\* C27 happens: a fetch one second after T0 returned an invalid date, a date
\* 24 hours and a second back, a date 24 hours back at T0 and a fresh one;
\* only the fresh item went on and has been written
C27_Witness ==
  \E id \in DOMAIN tasks :
    /\ tasks[id].pc = "probe" /\ tasks[id].startTime > T0
    /\ UrlsOf(tasks[id].items) = {"https://ex.test/a"}
    /\ \E r \in rss_news : r.url = "https://ex.test/a"

\* the canonical urls of the items of a body that are fresh at the time `now`
CanonicalUrls(body, now) ==
  {CanonOf[body[i]] : i \in {j \in DOMAIN body : ~Stale(body[j].date, now)}}
    \ {NullUrl}

\* C28: an item whose url has no canonical form (normalizeUrl returns null) is
\* dropped before the bulk insert, the other items of the fetch go on: the
\* items a fetch hands on to the store are those of its fresh items that have
\* a canonical url, under that url; no row, no new-item event and no published
\* message has a null url, and each has the canonical url of a fetched item.
C28_NullUrlDropped ==
  /\ [](/\ ~Surfaced(NullUrl)
        /\ \A r \in rss_news : \E x \in FetchedItems : r.url = CanonOf[x]
        /\ \A w \in Workers : \A i \in DOMAIN emitted[w] :
             NewItemAt(w, i) => \E x \in FetchedItems : emitted[w][i].url = CanonOf[x])
  /\ [][\A id \in DOMAIN tasks :
          tasks[id].pc = "fetch" =>
            \/ tasks'[id].pc = "fetch"
            \/ \E body \in ItemBodies :
                 CanonicalUrls(body, clock) =
                   (IF id \in DOMAIN tasks' /\ tasks'[id].pc = "bulk"
                    THEN UrlsOf(tasks'[id].items) ELSE {})]_vars

\* C28 happens: a fetch returned an item without url, an item whose url does
\* not parse and an item with a url; the third went on under its canonical
\* url and has been written
C28_Witness ==
  \E id \in DOMAIN tasks :
    /\ tasks[id].pc = "probe"
    /\ UrlsOf(tasks[id].items) = {"https://ex.test/b"}
    /\ \E r \in rss_news : r.url = "https://ex.test/b"

\* C30: normalizeUrl is idempotent: for every fetched url U that has a
\* canonical form, normalizeUrl(normalizeUrl(U)) = normalizeUrl(U).  The
\* urls are those the pipeline has normalized: the items handed on to the
\* store.
C30_NormalizeIdempotent ==
  \A id \in DOMAIN tasks :
    tasks[id].pc = "bulk" =>
      \A i \in DOMAIN tasks[id].items :
        normalizeUrl(tasks[id].items[i].url) = tasks[id].items[i].url

\* C29: a message on the aggregator channel that is not JSON, or whose cmd is
\* not add, remove or replace (SpecItems receives no other message, cmds
\* counts them), leaves the active-feed map, the timers, the store and the
\* failureTracker as they are, emits no event and starts no operation.
C29_OtherMessageIgnored ==
  [][cmds' # cmds =>
       /\ activeIntervals' = activeIntervals
       /\ timers' = timers
       /\ rss_sites' = rss_sites /\ rss_news' = rss_news
       /\ failureTracker' = failureTracker
       /\ emitted' = emitted
       /\ tasks' = tasks]_vars

\* C29 happens: such a message has been received while the feed was active
\* and a tick of it was in flight
C29_Witness ==
  /\ cmds > 0
  /\ \E x \in timers : x.w = 1 /\ x.feed.url = U1
  /\ \E id \in DOMAIN tasks : tasks[id].kind = "tick"

\* pairs of VariantLinks that differ only in tracking parameters, in the
\* fragment, a default port and the case of scheme and host, or in one
\* trailing slash
VariantPairs ==
  {<< "https://ex.test/a?x=1", "https://ex.test/a?UTM_Source=n&x=1&fbclid=z" >>,
   << "https://ex.test/b", "HTTPS://EX.Test:443/b#top" >>,
   << "http://ex.test/e", "http://ex.test:80/e" >>,
   << "https://ex.test/c", "https://ex.test/c/" >>,
   << "https://ex.test/d/", "https://ex.test/d//" >>}

\* C31: two urls that differ only in tracking parameters, in the fragment,
\* in a default port, in the case of host or scheme, or in one trailing slash
\* have the same canonical form: the items of a fetch whose links are such a
\* pair are handed on to the store under the same url.
C31_VariantsSameCanonical ==
  \A id \in DOMAIN tasks :
    tasks[id].pc = "bulk" =>
      \A i \in DOMAIN tasks[id].items : \A j \in DOMAIN tasks[id].items :
        << tasks[id].items[i].title, tasks[id].items[j].title >> \in VariantPairs =>
          tasks[id].items[i].url = tasks[id].items[j].url

\* the links of VariantLinks that have no scheme, with the canonical form of
\* "https://" followed by the link
SchemePrepended ==
  [x \in {"example.com", "Example.com/x/"} |-> normalizeUrl("https://" \o x)]

\* C32 as stated: a link without http(s) scheme is handed on under the
\* canonical form of "https://" and the link, and a bare host under "https://"
\* and the host, without a trailing slash.
C32_BareHostNoSlash ==
  \A id \in DOMAIN tasks :
    tasks[id].pc = "bulk" =>
      \A i \in DOMAIN tasks[id].items :
        LET item == tasks[id].items[i]
        IN /\ item.title \in DOMAIN SchemePrepended =>
                item.url = SchemePrepended[item.title]
           /\ item.title = "example.com" => item.url = "https://example.com"

\* C32 (amended): a link without http(s) scheme is handed on under the
\* canonical form of "https://" and the link; for a bare host that is
\* "https://" and the host followed by the root path "/".
C32_BareHostRootSlash ==
  \A id \in DOMAIN tasks :
    tasks[id].pc = "bulk" =>
      \A i \in DOMAIN tasks[id].items :
        LET item == tasks[id].items[i]
        IN /\ item.title \in DOMAIN SchemePrepended =>
                item.url = SchemePrepended[item.title]
           /\ item.title = "example.com" => item.url = "https://example.com/"

\* a fetch has handed on the item whose link is the bare host
C32_Witness ==
  \E id \in DOMAIN tasks :
    /\ tasks[id].pc = "bulk"
    /\ \E i \in DOMAIN tasks[id].items :
         /\ tasks[id].items[i].title = "example.com"
         /\ tasks[id].items[i].url = "https://example.com/"


(***************************************************************************)
(* Backoff of a feed whose stored refresh is above the 24 hours cap.       *)
(***************************************************************************)
\* rss_sites.refresh is INT(11) and no code path validates it: a row polled
\* every 48 hours
InitSlow ==
  /\ rss_sites = {Site(1, U1, 2 * MAX_INTERVAL_MS)}
  /\ rss_news = {}
  /\ siteSeq = 2
  /\ newsSeq = 2
  /\ activeIntervals = [w \in Workers |-> Empty]
  /\ timers = {}
  /\ failureTracker = [w \in Workers |-> Empty]
  /\ tasks = Empty
  /\ published = [w \in Workers |-> << >>]
  /\ emitted = [w \in Workers |-> << >>]
  /\ proc = [w \in Workers |-> "idle"]
  /\ runSeq = 0
  /\ clock = T0
  /\ ticks = 0
  /\ cmds = 0

SpecSlow == InitSlow /\ [][NextBackoff]_vars

\* C33: every interval the backoff hands to updateInterval is at most
\* 86 400 000 ms and at least the refresh the runtime entry of the feed had
\* before that failure (the backoff never shortens the polling interval)
C33_BackoffWithinBounds ==
  [][\A id \in (DOMAIN tasks') \ (DOMAIN tasks) :
       LET t == tasks'[id]
       IN (t.kind = "herr" /\ t.pc = "getByUrl")
          => /\ t.cfg.refresh <= MAX_INTERVAL_MS
             /\ t.cfg.url \in DOMAIN activeIntervals[t.w]
             /\ t.cfg.refresh >= activeIntervals[t.w][t.cfg.url].feed.refresh]_vars

\* the upper half of C33 alone
C33_BackoffCapped ==
  [][\A id \in (DOMAIN tasks') \ (DOMAIN tasks) :
       LET t == tasks'[id]
       IN (t.kind = "herr" /\ t.pc = "getByUrl")
          => t.cfg.refresh <= MAX_INTERVAL_MS]_vars


\* C34: every live timer is the intervalId recorded in activeIntervals for
\* its url, and a worker has at most one live timer per url
C34_TimersRecorded ==
  /\ \A t \in timers :
        /\ t.feed.url \in DOMAIN activeIntervals[t.w]
        /\ activeIntervals[t.w][t.feed.url].intervalId = t.tid
  /\ \A t1, t2 \in timers :
        (t1.w = t2.w /\ t1.feed.url = t2.feed.url) => t1 = t2


(***************************************************************************)
(* Progress: the event loop runs every completion, timer and message that  *)
(* is pending, so a step that stays possible is eventually taken.          *)
(***************************************************************************)
\* the steps of NextFaults, a fetch resolving with old items only (BodyOld)
\* in place of the fetch that resolves with a fresh item
FaultsProgress ==
  \/ Start(1)
  \/ \E id \in DOMAIN tasks : GetAllDone(id)
  \/ \E id \in DOMAIN tasks : GetAllFails(id)
  \/ \E t \in timers : TimerFire(t.w, t)
  \/ \E id \in DOMAIN tasks : \E name \in {"fetch_url_error", "parse_url_error"} :
        tasks[id].kind = "tick" /\ FetchFails(id, name)
  \/ \E id \in DOMAIN tasks : FetchOk(id, BodyOld)
  \/ \E id \in DOMAIN tasks : BulkDone(id)
  \/ \E id \in DOMAIN tasks : ProbeDone(id)
  \/ \E id \in DOMAIN tasks : PersistFails(id)
  \/ \E id \in DOMAIN tasks : SaveDone(id)
  \/ \E id \in DOMAIN tasks : GetByUrlDone(id)
  \/ \E id \in DOMAIN tasks : UpdateDone(id, "noop")
  \/ ClockTick

\* every pending completion is eventually run: a fetch in flight resolves
\* (with a fresh item or without), a statement of the store settles, a timer
\* that is set elapses
SpecFaultsFair ==
  /\ Init
  /\ [][FaultsProgress \/ \E id \in DOMAIN tasks : FetchOk(id, BodyOne)]_vars
  /\ WF_vars(FaultsProgress)

\* C35: every feed with a runtime entry is eventually polled again: an entry
\* whose intervalId is null (0) eventually has a timer again (or is removed)
C35_NullEntryRestarted ==
  \A u \in {U1, U2} :
    (u \in DOMAIN activeIntervals[1] /\ activeIntervals[1][u].intervalId = 0)
      ~> (u \notin DOMAIN activeIntervals[1] \/ activeIntervals[1][u].intervalId # 0)


\* the runs of the timer ticks of the url that are in flight
TickRuns(ts, w, url) ==
  {ts[id].run : id \in {i \in DOMAIN ts : /\ ts[i].w = w
                                          /\ ts[i].kind = "tick"
                                          /\ ts[i].feed.url = url}}

\* C36: once remove(url) has completed (the row of the url is deleted; no
\* step of SpecDiscard adds or replaces a feed, and a reload that follows
\* reads a store without the url), the store never again holds a row for the
\* url and no timer tick for the url starts
C36_RemovedStaysRemoved ==
  [][SiteByUrl(rss_sites, U1) = {} =>
       /\ SiteByUrl(rss_sites', U1) = {}
       /\ TickRuns(tasks', 1, U1) \subseteq TickRuns(tasks, 1, U1)]_vars


\* C37: after a counted transient failure the next fetch happens only when
\* the lengthened timer elapses, so every counted failure has a timer period
\* of its own: the failure count of a feed never exceeds the number of
\* timer periods that have elapsed
C37_FailuresNeedTimerPeriods ==
  \A id \in DOMAIN failureTracker[1] : failureTracker[1][id].count <= ticks


\* C38: failures that are separated by a successful run of the feed (with or
\* without new items) are never added together: a failure is added to the
\* count of a feed only when no run of the feed has succeeded since the
\* failure counted before it, so a removal follows five failures in a row
C38_OnlyConsecutiveFailuresAdd ==
  [][\A id \in (DOMAIN failureTracker[1]) \cap (DOMAIN failureTracker'[1]) :
       failureTracker'[1][id].count > failureTracker[1][id].count
         => failureTracker[1][id].oks = 0]_vars


(***************************************************************************)
(* A feed with counted failures is removed by a control message.           *)
(***************************************************************************)
NextStale ==
  \/ Start(1)
  \/ \E id \in DOMAIN tasks : GetAllDone(id)
  \/ \E t \in timers : TimerFire(t.w, t)
  \/ \E id \in DOMAIN tasks : tasks[id].kind = "tick" /\ FetchFails(id, "fetch_url_error")
  \/ \E id \in DOMAIN tasks : FetchOk(id, BodyOld)
  \/ \E id \in DOMAIN tasks : GetByUrlDone(id)
  \/ \E id \in DOMAIN tasks : UpdateDone(id, "noop")
  \/ Command(1, Msg("remove", U1, 0))
  \/ \E id \in DOMAIN tasks : RemoveDone(id)
  \/ \E id \in DOMAIN tasks : InsertDone(id)
  \/ UnhandledRejection(1)
  \/ ClockTick

SpecStale == Init /\ [][NextStale]_vars

\* the ids of the feeds that are active in the worker: a runtime entry with
\* a live timer
ActiveIds(w) ==
  {activeIntervals[w][u].feed.id :
     u \in {x \in DOMAIN activeIntervals[w] :
              \E t \in timers : t.w = w /\ t.tid = activeIntervals[w][x].intervalId}}

\* C39: whenever no handler is in flight, failureTracker holds entries only
\* for the ids of feeds that are active, each with a count from 1 to
\* MAX_CONSECUTIVE_FAILURES - 1
C39_TrackerOnlyActiveFeeds ==
  \A w \in Workers :
    (proc[w] = "up" /\ Quiet(w)) =>
      \A id \in DOMAIN failureTracker[w] :
        /\ id \in ActiveIds(w)
        /\ failureTracker[w][id].count \in 1 .. (MAX_CONSECUTIVE_FAILURES - 1)


(***************************************************************************)
(* Two control messages for one url that arrive back to back.              *)
(***************************************************************************)
\* the subscriber emits two 'message' events one after the other (both were
\* in one read of the connection): the second handler starts when the first
\* has reached its first await
CommandPair(w, first, second) ==
  /\ proc[w] \in {"up", "destroyed"}
  /\ cmds < MaxCmds
  /\ Step(handleRedisMessage(handleRedisMessage(World, w, first), w, second))
  /\ cmds' = cmds + 1
  /\ UNCHANGED << clock, ticks >>

\* remove then add for the stored url U1, or add then remove for the new
\* url U2; every statement of the store succeeds
NextOrder ==
  \/ Start(1)
  \/ \E id \in DOMAIN tasks : GetAllDone(id)
  \/ \E id \in DOMAIN tasks : FetchOk(id, BodyOld)
  \/ CommandPair(1, Msg("remove", U1, 0), Msg("add", U1, 120000))
  \/ CommandPair(1, Msg("add", U2, 120000), Msg("remove", U2, 0))
  \/ \E id \in DOMAIN tasks : GetByUrlDone(id)
  \/ \E id \in DOMAIN tasks : UpdateDone(id, "noop")
  \/ \E id \in DOMAIN tasks : InsertDone(id)
  \/ \E id \in DOMAIN tasks : RemoveDone(id)
  \/ \E id \in DOMAIN tasks : ListDone(id)

SpecOrder == Init /\ [][NextOrder]_vars

\* the url has a row in the store / a live timer in worker 1
HasRow(url) == SiteByUrl(rss_sites, url) # {}
HasTimer(url) == \E t \in timers : t.w = 1 /\ t.feed.url = url

\* C40: commands for one url take effect in the order they arrive.  When
\* the pair of messages has been handled to the end, the url of "remove
\* then add" (U1) has a store row and a running timer, and the url of "add
\* then remove" (U2) has neither
C40_ArrivalOrder ==
  (Quiet(1) /\ cmds = MaxCmds) =>
    /\ HasRow(U1) /\ HasTimer(U1)
    /\ ~ HasRow(U2) /\ ~ HasTimer(U2)

=============================================================================
